---- MODULE Spec2Model ----
(***************************************************************************)
(* Model of the ranking ladder (PingPongCalculator over the standings and  *)
(* matches tables) and of the visit accumulator (VisitCalculator over the  *)
(* visits table) of t5-social-bot.                                         *)
(*                                                                         *)
(* Ratings are kept in hundredths of a point: Elo.game_over rounds every   *)
(* rating to 2 decimals.  Timestamps are kept in whole hours.              *)
(***************************************************************************)
EXTENDS Integers, Naturals, Sequences, FiniteSets, TLC

\* ------------------------------------------------------------------------
\* Bounds of the model
\* ------------------------------------------------------------------------
Players == {"ann", "bob", "cid"}

InitRatings == {40000, 41000}

MaxInitPlayers == 2

MaxInitRank == 2

MaxGames == 3

\* Voters and nominees of the nominate module
Voters == {"ann", "bob"}

Nominees == {"cid"}

\* Positions of the tasks of a task list and the handlers that toggle them
Positions == {0, 1, 2}

Handlers == {"h1", "h2"}

Callers == {"g1", "g2"}

\* Days the nominate module is followed for; day 0 is a Monday
MaxDays == 8

\* Users of the visits table, in the order of their full names
UserNames == <<"ann", "bob">>

\* Length of a calendar month in hours (shortened)
HoursPerMonth == 96

\* Timestamps (hours) a short batch of raw check-ins draws from
ShortTimes == {24, 27, 33}

\* Longest run of historical check-ins, one every Distance hours
MaxFlux == 13

MaxCalls == 2

\* Visits of a stored row that has visits
VeteranCount == 4

\* ------------------------------------------------------------------------
\* Program constants
\* ------------------------------------------------------------------------
EloK == 20

EloBaseRating == 400

Scale == 100

None == -1

\* timedelta(days=7) of NominateModule._get_mondays
DaysPerWeek == 7

\* timedelta(hours=8) of VisitCalculator._clean_visits
Distance == 8

\* The configured visit thresholds and their points (config visits_to_points)
Checkpoints == (5 :> 10) @@ (10 :> 20)

VARIABLES
    standings,   \* PingPongStandingsTable._by_player_name._data, in dict order
    matches,     \* PingPongMatchesTable._by_player_name._data, player -> list
    clock,       \* datetime.now(), strictly increasing
    call,        \* arguments of the latest game_over call
    batch,       \* standing_updates handed to save_all by the latest call
    result,      \* what the latest game_over returned, or that it raised
    remoteLog,   \* remote calls issued by the latest operation, in order
    games,       \* number of game_over calls so far
    visits,      \* VisitsTable._by_full_name._data, in dict order
    prevVisits,  \* that data as it was before the latest add_visits call
    rawBatch,    \* raw_visits of the latest add_visits call
    accepted,    \* clean_visits of each user of the latest call
    reached,     \* what the latest add_visits returned
    everReached, \* the (user, month, threshold) reported by earlier calls
    calls,       \* number of add_visits calls so far
    variant,     \* which Index subclass the index under test is
    index,       \* its _data and _unique, and whether the latest call raised
    held,        \* the models the calls so far have left in the index
    ixOp,        \* name of the latest call on the index
    lock,        \* a table's RWLockWrite: the writer and the readers inside
    threads,     \* what each thread is running on that table, and where it is
    sheets,      \* the remote spreadsheet: the raw values of each worksheet
    mem,         \* the records the indexes of each table hold
    pipe,        \* the Subject of the database and the subscription of each table
    rf,          \* the latest refresh or write of the database and how it went
    nominations, \* NominationsTable._by_voter._data, voter -> list
    today,       \* datetime.now() of the nominate module, in days
    vote,        \* the latest _confirm: the voter and whether it was taken
    taskList,    \* TasksTable._by_id: is_done of each task of the stored list
    taskCells,   \* the done cells of the list in the worksheet
    toggles,     \* each _toggle handler: where it is, its position and its copy
    usersTable,  \* the unique indexes of the users table
    userOp,      \* the latest call of the users table and how it went
    overlap,     \* the game_over calls that run side by side, each with what it holds
    reloaded     \* whether the standings were refreshed beside them

ladderVars == <<standings, matches, clock, call, batch, result, games>>

visitVars == <<visits, prevVisits, rawBatch, accepted, reached, everReached, calls>>

indexVars == <<variant, index, held, ixOp>>

lockVars == <<lock, threads>>

refreshVars == <<sheets, mem, pipe, rf>>

nominateVars == <<nominations, today, vote>>

taskVars == <<taskList, taskCells, toggles>>

usersVars == <<usersTable, userOp>>

overlapVars == <<overlap, reloaded>>

moduleVars == <<nominateVars, taskVars, usersVars, overlapVars>>

vars == <<standings, matches, clock, call, batch, result, remoteLog, games,
          visits, prevVisits, rawBatch, accepted, reached, everReached, calls,
          variant, index, held, ixOp, lock, threads,
          sheets, mem, pipe, rf,
          nominations, today, vote, taskList, taskCells, toggles,
          usersTable, userOp, overlap, reloaded>>

\* ------------------------------------------------------------------------
\* What each part of the model holds while a specification leaves it alone
\* ------------------------------------------------------------------------
\* The state of one index: _data, _unique (prefix search only), and whether
\* the call in progress has raised
EmptyIndex == [data |-> <<>>, unique |-> <<>>, raised |-> FALSE]

\* A game_over that has not been called
NotCalled ==
    [at |-> "idle", winner |-> "", loser |-> "", updates |-> <<>>,
     to_update |-> <<>>, to_insert |-> <<>>, crossed |-> FALSE]

\* A _toggle handler that has not been called
Waiting == [at |-> "idle", position |-> 0, task_list |-> [p \in Positions |-> FALSE], sent |-> FALSE]

ModulesIdle ==
    /\ nominations = [v \in Voters |-> <<>>]
    /\ today = 0
    /\ vote = [voter |-> "", taken |-> FALSE]
    /\ taskList = [p \in Positions |-> FALSE]
    /\ taskCells = [p \in Positions |-> FALSE]
    /\ toggles = [h \in Handlers |-> Waiting]
    /\ usersTable = [by_full_name |-> EmptyIndex, by_telegram_name |-> EmptyIndex]
    /\ userOp = [name |-> "none", raised |-> FALSE, rows |-> {}]
    /\ overlap = [c \in Callers |-> NotCalled]
    /\ reloaded = FALSE

LadderIdle ==
    /\ standings = <<>>
    /\ matches = [p \in Players |-> <<>>]
    /\ clock = 1
    /\ call = [winner |-> "", loser |-> "", sortRaises |-> FALSE]
    /\ batch = <<>>
    /\ result = [status |-> "none"]
    /\ games = 0

VisitsIdle ==
    /\ visits = <<>>
    /\ prevVisits = <<>>
    /\ rawBatch = <<>>
    /\ accepted = <<>>
    /\ reached = <<>>
    /\ everReached = {}
    /\ calls = 0

IndexIdle ==
    /\ variant = "unique"
    /\ index = EmptyIndex
    /\ held = {}
    /\ ixOp = "none"

Threads == {"t1", "t2", "t3"}

Resting == [op |-> "none", now |-> "idle", script |-> <<>>, parts |-> {}, applied |-> {}]

LockIdle ==
    /\ lock = [writer |-> "free", readers |-> {}]
    /\ threads = [t \in Threads |-> Resting]

Tables == {"A", "B"}

\* A worksheet that was never loaded, and one without a row
NoRaw == [kind |-> "never", rows |-> <<>>]

BlankRaw == [kind |-> "blank", rows |-> <<>>]

MissingRaw == [kind |-> "missing", rows |-> <<>>]

Quiet == [name |-> "none", table |-> "none", ok |-> TRUE, wrote |-> {},
          loadRaised |-> FALSE, failed |-> {}, logged |-> 0, raised |-> FALSE]

\* A database whose tables have subscribed and which has loaded nothing
Unloaded == [stopped |-> FALSE, alive |-> [t \in Tables |-> TRUE], last |-> [t \in Tables |-> NoRaw]]

RefreshIdle ==
    /\ sheets = [t \in Tables |-> BlankRaw]
    /\ mem = [t \in Tables |-> {}]
    /\ pipe = Unloaded
    /\ rf = Quiet

\* The variables of the parts added after the ladder and the visits
tableVars == <<lockVars, refreshVars>>

storeVars == <<indexVars, tableVars>>

\* ------------------------------------------------------------------------
\* Elo (helpers/business_logic/league/elo.py)
\* ------------------------------------------------------------------------
\* Elo.game_over evaluated on floats: for a winner rated d hundredths above
\* the loser the winner gains round(K * (1 - E), 2) and the loser loses the
\* same amount.  The gain is K/2 at d = 0 and drops by one hundredth at each
\* of the rating differences below (tabulated by running Elo.game_over for
\* every d in 0..EloMaxDiff); for d < 0 it is K minus the gain at -d.
EloBreaks ==
  <<
     18, 53, 87, 122, 157, 192, 226, 261, 296, 331, 365, 400,
     435, 470, 504, 539, 574, 609, 643, 678, 713, 748, 782, 817,
     852, 887, 921, 956, 991, 1026, 1061, 1095, 1130, 1165, 1200, 1234,
     1269, 1304, 1339, 1374, 1408, 1443, 1478, 1513, 1548, 1582, 1617, 1652,
     1687, 1722, 1757, 1791, 1826, 1861, 1896, 1931, 1966, 2000, 2035, 2070,
     2105, 2140, 2175, 2210, 2245, 2279, 2314, 2349, 2384, 2419, 2454, 2489,
     2524, 2559, 2594, 2629, 2664, 2699, 2733, 2768, 2803, 2838, 2873, 2908,
     2943, 2978, 3013, 3048, 3083, 3118, 3153, 3188, 3223, 3259, 3294, 3329,
     3364, 3399, 3434, 3469, 3504, 3539, 3574, 3609, 3645, 3680, 3715, 3750,
     3785, 3820, 3855, 3891, 3926, 3961, 3996, 4031, 4067, 4102, 4137, 4172,
     4208, 4243, 4278, 4313, 4349, 4384, 4419, 4455, 4490, 4525, 4561, 4596,
     4631, 4667, 4702, 4737, 4773, 4808, 4844, 4879, 4914, 4950, 4985, 5021,
     5056, 5092, 5127, 5163, 5198, 5234, 5269, 5305, 5341, 5376, 5412, 5447,
     5483, 5519, 5554, 5590, 5625, 5661, 5697, 5733, 5768, 5804, 5840, 5875,
     5911, 5947, 5983, 6018, 6054, 6090, 6126, 6162, 6198, 6234, 6269, 6305,
     6341, 6377, 6413, 6449, 6485, 6521, 6557, 6593, 6629, 6665, 6701, 6737,
     6773, 6809, 6845, 6881, 6918, 6954, 6990, 7026, 7062, 7098, 7135, 7171,
     7207, 7243, 7280, 7316, 7352, 7389, 7425, 7461, 7498, 7534, 7571, 7607,
     7643, 7680, 7716, 7753, 7789, 7826, 7862, 7899, 7936, 7972, 8009, 8045,
     8082, 8119, 8155, 8192, 8229, 8266, 8302, 8339, 8376, 8413, 8450, 8486,
     8523, 8560, 8597, 8634, 8671, 8708, 8745, 8782, 8819, 8856, 8893, 8930,
     8967, 9004, 9041, 9079, 9116, 9153, 9190, 9227, 9265, 9302, 9339, 9377,
     9414, 9451, 9489, 9526, 9564, 9601, 9638, 9676, 9713, 9751, 9789, 9826,
     9864, 9901, 9939, 9977, 10014, 10052, 10090, 10128, 10165, 10203, 10241, 10279,
     10317, 10355, 10393, 10431, 10469, 10507, 10545, 10583, 10621, 10659, 10697, 10735,
     10773, 10812, 10850, 10888, 10926, 10965, 11003, 11041, 11080, 11118, 11157, 11195,
     11234, 11272, 11311, 11349, 11388, 11426, 11465, 11504, 11542, 11581, 11620, 11659,
     11698, 11736, 11775, 11814, 11853, 11892, 11931, 11970, 12009, 12048, 12087, 12126,
     12166, 12205, 12244, 12283, 12323, 12362, 12401, 12441, 12480, 12519, 12559, 12598,
     12638, 12678, 12717, 12757, 12796, 12836, 12876, 12916, 12955, 12995, 13035, 13075,
     13115, 13155, 13195, 13235, 13275, 13315, 13355, 13395, 13435, 13476, 13516, 13556,
     13596, 13637, 13677, 13718, 13758, 13799, 13839, 13880, 13920, 13961, 14002, 14042,
     14083, 14124, 14165, 14206, 14246, 14287, 14328, 14369, 14410, 14452, 14493, 14534,
     14575, 14616, 14658, 14699, 14740, 14782, 14823, 14865, 14906, 14948, 14989
  >>

EloMaxDiff == EloBreaks[Len(EloBreaks)]

EloGainPos(d) ==
    IF d <= EloMaxDiff
    THEN (EloK * Scale) \div 2 - Cardinality({i \in DOMAIN EloBreaks : EloBreaks[i] <= d})
    ELSE CHOOSE g \in {} : TRUE

EloGain(d) == IF d >= 0 THEN EloGainPos(d) ELSE EloK * Scale - EloGainPos(-d)

EloGameOver(winner_rating, loser_rating) ==
    LET g == EloGain(winner_rating - loser_rating)
    IN  <<winner_rating + g, loser_rating - g>>

\* ------------------------------------------------------------------------
\* Standings table: UniqueIndex keyed by player_name
\* (integrations/google/sheets/tables/ping_pong_standings.py)
\* ------------------------------------------------------------------------
StandingFields == {"player_name", "rating", "wins", "losses", "rank"}

Names(list) == {list[i].player_name : i \in DOMAIN list}

\* list.index(standing): PingPongStanding.__eq__ compares player_name only
IndexOf(list, name) ==
    IF name \in Names(list)
    THEN CHOOSE i \in DOMAIN list :
            /\ list[i].player_name = name
            /\ \A j \in DOMAIN list : list[j].player_name = name => i <= j
    ELSE 0

\* Mutant: the default standing already counts a win
InitStanding_CountsAWin(player) ==
    [player_name |-> player, rating |-> EloBaseRating * Scale,
     wins |-> 1, losses |-> 0, rank |-> 1]

InitStanding(player) ==
    [player_name |-> player, rating |-> EloBaseRating * Scale,
     wins |-> 0, losses |-> 0, rank |-> 1]

GetStanding(data, player) ==
    IF player \in Names(data) THEN data[IndexOf(data, player)]
    ELSE InitStanding(player)

\* UniqueIndex._delete_inner for every model of a list: del self._data[key]
UniqueDeleteAll(data, names) ==
    SelectSeq(data, LAMBDA s : s.player_name \notin names)

\* UniqueIndex._insert_inner: self._data[key] = model; a dict keeps the
\* position of a key it already has and puts a new key last
UniqueInsert(data, model) ==
    IF model.player_name \in Names(data)
    THEN [data EXCEPT ![IndexOf(data, model.player_name)] = model]
    ELSE Append(data, model)

RECURSIVE UniqueInsertAll(_, _)
UniqueInsertAll(data, models) ==
    IF models = <<>> THEN data
    ELSE UniqueInsertAll(UniqueInsert(data, Head(models)), Tail(models))

\* UpdatableTable._diff: the serialized columns whose value differs
Diff(a, b) == {f \in StandingFields : a[f] # b[f]}

\* UpdatableTable.update_all: the (existing, model) pairs that are saved
ModelChanges(data, models) ==
    SelectSeq(models, LAMBDA m :
        /\ m.player_name \in Names(data)
        /\ Diff(data[IndexOf(data, m.player_name)], m) # {})

\* UpdatableTable.update_all on the in-memory index: Index.update_all deletes
\* every old model, then inserts every new one
UpdateAll(data, models) ==
    LET changes == ModelChanges(data, models)
    IN  UniqueInsertAll(UniqueDeleteAll(data, Names(changes)), changes)

InsertAll(data, models) == UniqueInsertAll(data, models)

\* PingPongStandingsTable.save_all, in-memory part
SaveAll(data, models) ==
    LET to_update == SelectSeq(models, LAMBDA m : m.player_name \in Names(data))
        to_insert == SelectSeq(models, LAMBDA m : m.player_name \notin Names(data))
    IN  InsertAll(UpdateAll(data, to_update), to_insert)

\* The remote calls of save_all: one cell patch when some row changed, one
\* append when some row is new, then the sort of the worksheet
SaveAllRemote(data, models) ==
    LET to_update == SelectSeq(models, LAMBDA m : m.player_name \in Names(data))
        to_insert == SelectSeq(models, LAMBDA m : m.player_name \notin Names(data))
        changes   == ModelChanges(data, to_update)
        patch     == [i \in DOMAIN changes |->
                        [key   |-> changes[i].player_name,
                         cells |-> Diff(data[IndexOf(data, changes[i].player_name)], changes[i])]]
    IN  (IF changes # <<>>
         THEN <<[op |-> "update_cells", table |-> "standings", rows |-> patch]>>
         ELSE <<>>)
        \o (IF to_insert # <<>>
            THEN <<[op |-> "append_rows", table |-> "standings", rows |-> to_insert]>>
            ELSE <<>>)
        \o <<[op |-> "sort", table |-> "standings", rows |-> <<>>]>>

\* ------------------------------------------------------------------------
\* Matches table: SortedBucketIndex keyed by winner and by loser, sorted by
\* date (integrations/google/sheets/tables/ping_pong_matches.py)
\* ------------------------------------------------------------------------
InList(list, x) == \E i \in DOMAIN list : list[i] = x

\* Mutant: the model goes to the front of the bucket
InsortLeft_Front(bucket, model) == <<model>> \o bucket

\* bisect.insort_left(bucket, model, key=date)
InsortLeft(bucket, model) ==
    LET before == SelectSeq(bucket, LAMBDA m : m.date < model.date)
        after  == SelectSeq(bucket, LAMBDA m : m.date >= model.date)
    IN  before \o <<model>> \o after

\* SortedBucketIndex._insert_inner with keys [winner, loser]: a model found
\* in the bucket of a key ends the whole insert
SortedBucketInsert(data, model) ==
    IF InList(data[model.winner], model) THEN data
    ELSE LET d1 == [data EXCEPT ![model.winner] = InsortLeft(@, model)]
         IN  IF InList(d1[model.loser], model) THEN d1
             ELSE [d1 EXCEPT ![model.loser] = InsortLeft(@, model)]

\* PingPongMatchesTable.get_streak
RECURSIVE StreakFrom(_, _, _, _, _)
StreakFrom(list, player_name, i, last_result, streak) ==
    IF i = 0 THEN streak
    ELSE LET r == IF list[i].winner = player_name THEN 1 ELSE -1
         IN  IF last_result # 0 /\ r # last_result THEN streak
             ELSE StreakFrom(list, player_name, i - 1, r, streak + r)

GetStreak(data, player_name) ==
    StreakFrom(data[player_name], player_name, Len(data[player_name]), 0, 0)

\* ------------------------------------------------------------------------
\* PingPongCalculator (helpers/business_logic/ping_pong_calculator.py)
\* ------------------------------------------------------------------------
\* Mutant: the streak never restarts on a result of the other sign
AdvanceStreak_NoReset(streak, change) == streak + change

AdvanceStreak(streak, change) ==
    IF streak * change > 0 THEN streak + change ELSE change

SpliceIntoList(list, standing) ==
    IF standing.player_name \in Names(list)
    THEN [list EXCEPT ![IndexOf(list, standing.player_name)] = standing]
    ELSE Append(list, standing)

FindInList(list, standing) ==
    IF standing.player_name \in Names(list)
    THEN list[IndexOf(list, standing.player_name)]
    ELSE standing

\* Mutant: the sort loses reverse=True and orders by ascending rating
RECURSIVE SortByRating_Ascending(_)
SortByRating_Ascending(list) ==
    IF list = <<>> THEN <<>>
    ELSE LET n      == Len(list)
             sorted == SortByRating_Ascending(SubSeq(list, 1, n - 1))
             x      == list[n]
             front  == SelectSeq(sorted, LAMBDA s : s.rating <= x.rating)
             back   == SelectSeq(sorted, LAMBDA s : s.rating > x.rating)
         IN  front \o <<x>> \o back

\* list.sort(key=rating, reverse=True): stable, equal ratings keep their order
RECURSIVE SortByRating(_)
SortByRating(list) ==
    IF list = <<>> THEN <<>>
    ELSE LET n      == Len(list)
             sorted == SortByRating(SubSeq(list, 1, n - 1))
             x      == list[n]
             front  == SelectSeq(sorted, LAMBDA s : s.rating >= x.rating)
             back   == SelectSeq(sorted, LAMBDA s : s.rating < x.rating)
         IN  front \o <<x>> \o back

\* Mutant: a standing that changes rank starts counting its wins anew
RankUpdates_ResetsWins(sorted) ==
    LET F[i \in 0..Len(sorted)] ==
            IF i = 0 THEN <<>>
            ELSE IF sorted[i].rank # i
                 THEN Append(F[i - 1], [sorted[i] EXCEPT !.rank = i, !.wins = 0])
                 ELSE F[i - 1]
    IN  F[Len(sorted)]

\* The loop of _calculate_rank_changes: the standings whose saved rank is not
\* their position in the sorted list, copied with the correct rank
RankUpdates(sorted) ==
    LET F[i \in 0..Len(sorted)] ==
            IF i = 0 THEN <<>>
            ELSE IF sorted[i].rank # i
                 THEN Append(F[i - 1], [sorted[i] EXCEPT !.rank = i])
                 ELSE F[i - 1]
    IN  F[Len(sorted)]

\* Mutant: the winner and the loser are not added when their rank is unchanged
AppendIfMissing_Never(list, standing) == list

AppendIfMissing(list, standing) ==
    IF standing.player_name \in Names(list) THEN list ELSE Append(list, standing)

CalculateRankChanges(data, winner_standing, loser_standing) ==
    LET all_standings == SpliceIntoList(SpliceIntoList(data, winner_standing), loser_standing)
        updates       == RankUpdates(SortByRating(all_standings))
    IN  AppendIfMissing(AppendIfMissing(updates, winner_standing), loser_standing)

Delta(before, after) == [before |-> before, after |-> after, delta |-> after - before]

\* game_over(winner, loser); sortRaises: the remote sort of the worksheet at
\* the end of save_all raises, which ends game_over before the match is
\* inserted and before anything is returned
GameOver(winner, loser, sortRaises) ==
    /\ games < MaxGames
    /\ winner # loser
    /\ LET old_winner_standing == GetStanding(standings, winner)
           old_loser_standing  == GetStanding(standings, loser)
           old_winner_streak   == GetStreak(matches, winner)
           old_loser_streak    == GetStreak(matches, loser)
           new_ratings == EloGameOver(old_winner_standing.rating, old_loser_standing.rating)
           partial_winner_standing ==
               [old_winner_standing EXCEPT !.rating = new_ratings[1], !.wins = @ + 1]
           partial_loser_standing ==
               [old_loser_standing EXCEPT !.rating = new_ratings[2], !.losses = @ + 1]
           standing_updates ==
               CalculateRankChanges(standings, partial_winner_standing, partial_loser_standing)
           new_winner_standing == FindInList(standing_updates, partial_winner_standing)
           new_loser_standing  == FindInList(standing_updates, partial_loser_standing)
           match == [date |-> clock, winner |-> winner, loser |-> loser]
       IN  /\ batch' = standing_updates
           /\ standings' = SaveAll(standings, standing_updates)
           /\ call' = [winner |-> winner, loser |-> loser, sortRaises |-> sortRaises]
           /\ IF sortRaises
              THEN /\ matches' = matches
                   /\ result' = [status |-> "raised"]
                   /\ remoteLog' = SaveAllRemote(standings, standing_updates)
              ELSE /\ matches' = SortedBucketInsert(matches, match)
                   /\ remoteLog' = SaveAllRemote(standings, standing_updates)
                        \o <<[op |-> "insert_rows", table |-> "matches", rows |-> <<match>>]>>
                   /\ result' =
                        [status |-> "returned",
                         winner |-> [player |-> winner,
                                     rating |-> Delta(old_winner_standing.rating, new_winner_standing.rating),
                                     rank   |-> Delta(old_winner_standing.rank, new_winner_standing.rank),
                                     streak |-> Delta(old_winner_streak, AdvanceStreak(old_winner_streak, 1))],
                         loser  |-> [player |-> loser,
                                     rating |-> Delta(old_loser_standing.rating, new_loser_standing.rating),
                                     rank   |-> Delta(old_loser_standing.rank, new_loser_standing.rank),
                                     streak |-> Delta(old_loser_streak, AdvanceStreak(old_loser_streak, -1))]]
    /\ clock' = clock + 1
    /\ games' = games + 1
    /\ UNCHANGED <<visitVars, storeVars, moduleVars>>

\* The standings tables the ladder can start from: any rows a refresh can
\* have parsed, with distinct names, in any order, ranks right or wrong
RECURSIVE InitTables(_)
InitTables(n) ==
    IF n = 0 THEN {<<>>}
    ELSE LET shorter == InitTables(n - 1)
         IN  shorter \cup
             {Append(t, [player_name |-> p, rating |-> r, wins |-> 0, losses |-> 0, rank |-> k]) :
                 <<t, p, r, k>> \in {q \in shorter \X Players \X InitRatings \X (1..MaxInitRank) :
                                        /\ Len(q[1]) = n - 1
                                        /\ q[2] \notin Names(q[1])}}

InitLadder ==
    /\ standings \in InitTables(MaxInitPlayers)
    /\ matches = [p \in Players |-> <<>>]
    /\ clock = 1
    /\ call = [winner |-> "", loser |-> "", sortRaises |-> FALSE]
    /\ batch = <<>>
    /\ result = [status |-> "none"]
    /\ remoteLog = <<>>
    /\ games = 0
    /\ visits = <<>>
    /\ prevVisits = <<>>
    /\ rawBatch = <<>>
    /\ accepted = <<>>
    /\ reached = <<>>
    /\ everReached = {}
    /\ calls = 0
    /\ IndexIdle
    /\ LockIdle
    /\ RefreshIdle
    /\ ModulesIdle

NextLadder == \E winner, loser \in Players, sortRaises \in BOOLEAN :
                  GameOver(winner, loser, sortRaises)

SpecLadder == InitLadder /\ [][NextLadder]_vars

\* ------------------------------------------------------------------------
\* Visits table: UniqueIndex keyed by full_name
\* (integrations/google/sheets/tables/visits.py)
\* ------------------------------------------------------------------------
Users == {UserNames[i] : i \in DOMAIN UserNames}

\* VisitCalculator.month: the calendar month of a timestamp
Month(value) == value \div HoursPerMonth

FullNames(data) == {data[i].full_name : i \in DOMAIN data}

VisitsIndexOf(data, name) ==
    IF name \in FullNames(data)
    THEN CHOOSE i \in DOMAIN data : data[i].full_name = name
    ELSE 0

\* VisitsEntry(full_name=...): no last visit, no month
NewEntry(full_name) ==
    [full_name |-> full_name, last_visit |-> None, visits_by_month |-> <<>>]

\* VisitsTable.get_by_user
GetByUser(data, user) ==
    IF user \in FullNames(data) THEN data[VisitsIndexOf(data, user)]
    ELSE NewEntry(user)

\* dict.get(month, 0)
CountIn(visits_by_month, month) ==
    IF month \in DOMAIN visits_by_month THEN visits_by_month[month] ELSE 0

\* Database.to_datetime_string: '' for no datetime, else the formatted time
DatetimeString(t) == IF t = None THEN <<>> ELSE <<t>>

\* Mutant: every month column of the new row is sent
VisitsDiff_AllMonths(a, b) ==
    [full_name  |-> a.full_name # b.full_name,
     last_visit |-> DatetimeString(a.last_visit) # DatetimeString(b.last_visit),
     months     |-> DOMAIN b.visits_by_month]

\* UpdatableTable._diff over VisitsTable._serialize: the columns of the new
\* row whose value is not the one of the stored row
VisitsDiff(a, b) ==
    [full_name  |-> a.full_name # b.full_name,
     last_visit |-> DatetimeString(a.last_visit) # DatetimeString(b.last_visit),
     months     |-> {m \in DOMAIN b.visits_by_month :
                        \/ m \notin DOMAIN a.visits_by_month
                        \/ a.visits_by_month[m] # b.visits_by_month[m]}]

NoDiff(d) == ~d.full_name /\ ~d.last_visit /\ d.months = {}

\* Mutant: rows are patched whether or not a column changed
VisitsModelChanges_All(data, entries) ==
    SelectSeq(entries, LAMBDA e : e.full_name \in FullNames(data))

\* UpdatableTable.update_all: the (existing, model) pairs that are saved
VisitsModelChanges(data, entries) ==
    SelectSeq(entries, LAMBDA e :
        /\ e.full_name \in FullNames(data)
        /\ ~NoDiff(VisitsDiff(data[VisitsIndexOf(data, e.full_name)], e)))

VisitsUniqueInsert(data, entry) ==
    IF entry.full_name \in FullNames(data)
    THEN [data EXCEPT ![VisitsIndexOf(data, entry.full_name)] = entry]
    ELSE Append(data, entry)

RECURSIVE VisitsUniqueInsertAll(_, _)
VisitsUniqueInsertAll(data, entries) ==
    IF entries = <<>> THEN data
    ELSE VisitsUniqueInsertAll(VisitsUniqueInsert(data, Head(entries)), Tail(entries))

\* UpdatableTable.update_all on the in-memory index
VisitsUpdateAll(data, entries) ==
    LET changes == VisitsModelChanges(data, entries)
        kept    == SelectSeq(data, LAMBDA e : e.full_name \notin FullNames(changes))
    IN  VisitsUniqueInsertAll(kept, changes)

\* VisitsTable.save_all, in-memory part
VisitsSaveAll(data, entries) ==
    LET to_update == SelectSeq(entries, LAMBDA e : e.full_name \in FullNames(data))
        to_insert == SelectSeq(entries, LAMBDA e : e.full_name \notin FullNames(data))
    IN  VisitsUniqueInsertAll(VisitsUpdateAll(data, to_update), to_insert)

\* The remote calls of VisitsTable.save_all: one cell patch when some stored
\* row changed, one append when some row is new
VisitsSaveAllRemote(data, entries) ==
    LET to_update == SelectSeq(entries, LAMBDA e : e.full_name \in FullNames(data))
        to_insert == SelectSeq(entries, LAMBDA e : e.full_name \notin FullNames(data))
        changes   == VisitsModelChanges(data, to_update)
        patch     == [i \in DOMAIN changes |->
                        [key   |-> changes[i].full_name,
                         cells |-> VisitsDiff(data[VisitsIndexOf(data, changes[i].full_name)],
                                              changes[i])]]
        rows      == [i \in DOMAIN to_insert |->
                        [key |-> to_insert[i].full_name, cells |-> to_insert[i]]]
    IN  (IF changes # <<>>
         THEN <<[op |-> "update_cells", table |-> "visits", rows |-> patch]>>
         ELSE <<>>)
        \o (IF to_insert # <<>>
            THEN <<[op |-> "append_rows", table |-> "visits", rows |-> rows]>>
            ELSE <<>>)

\* ------------------------------------------------------------------------
\* VisitsEntry (data/models/visits_entry.py)
\* ------------------------------------------------------------------------
\* Mutant: the new counts overwrite the stored ones
EntryAddVisits_Overwrite(entry, visits_by_month) ==
    [entry EXCEPT !.visits_by_month =
        [m \in DOMAIN visits_by_month \cup DOMAIN entry.visits_by_month |->
            IF m \in DOMAIN visits_by_month THEN visits_by_month[m]
            ELSE entry.visits_by_month[m]]]

\* VisitsEntry.add_visits
EntryAddVisits(entry, visits_by_month) ==
    [entry EXCEPT !.visits_by_month =
        [m \in DOMAIN visits_by_month \cup DOMAIN entry.visits_by_month |->
            CountIn(visits_by_month, m) + CountIn(entry.visits_by_month, m)]]

\* ------------------------------------------------------------------------
\* VisitCalculator (helpers/visit_calculator.py)
\* ------------------------------------------------------------------------
\* sorted(list) of timestamps
RECURSIVE SortTimes(_)
SortTimes(list) ==
    IF list = <<>> THEN <<>>
    ELSE LET x == Head(list)
             rest == SortTimes(Tail(list))
         IN  SelectSeq(rest, LAMBDA t : t < x) \o <<x>> \o SelectSeq(rest, LAMBDA t : t >= x)

\* Mutant: a visit exactly Distance after the accepted one is rejected
RECURSIVE DistinctVisits_Strict(_, _, _)
DistinctVisits_Strict(new_visits, next_allowed_visit, distinct_visits) ==
    IF new_visits = <<>> THEN distinct_visits
    ELSE LET visit == Head(new_visits)
         IN  IF visit > next_allowed_visit
             THEN DistinctVisits_Strict(Tail(new_visits), visit + Distance, Append(distinct_visits, visit))
             ELSE DistinctVisits_Strict(Tail(new_visits), next_allowed_visit, distinct_visits)

\* The loop of _clean_visits over the sorted new visits
RECURSIVE DistinctVisits(_, _, _)
DistinctVisits(new_visits, next_allowed_visit, distinct_visits) ==
    IF new_visits = <<>> THEN distinct_visits
    ELSE LET visit == Head(new_visits)
         IN  IF visit >= next_allowed_visit
             THEN DistinctVisits(Tail(new_visits), visit + Distance, Append(distinct_visits, visit))
             ELSE DistinctVisits(Tail(new_visits), next_allowed_visit, distinct_visits)

\* Mutant: the stored last visit is not looked at
CleanVisits_NoLastVisit(visits_list, last_visit) ==
    IF visits_list = <<>> THEN <<>>
    ELSE DistinctVisits(SortTimes(visits_list), SortTimes(visits_list)[1], <<>>)

\* VisitCalculator._clean_visits
CleanVisits(visits_list, last_visit) ==
    LET kept == IF last_visit # None
                THEN SelectSeq(visits_list, LAMBDA v : v > last_visit)
                ELSE visits_list
        new_visits == SortTimes(kept)
    IN  IF kept = <<>> THEN <<>>
        ELSE DistinctVisits(new_visits,
                 IF last_visit # None THEN last_visit + Distance ELSE new_visits[1],
                 <<>>)

\* Mutant: every visit is counted under the month of the first one
CountVisitsByMonth_FirstMonth(visits_list) ==
    [m \in {Month(visits_list[1])} |-> Len(visits_list)]

\* VisitCalculator._count_visits_by_month
CountVisitsByMonth(visits_list) ==
    [m \in {Month(visits_list[i]) : i \in DOMAIN visits_list} |->
        Cardinality({i \in DOMAIN visits_list : Month(visits_list[i]) = m})]

\* Mutant: the bounds of the crossing are the other way round
ReachCheckpoints_AtOrAbove(start, end) ==
    [v \in {c \in DOMAIN Checkpoints : start <= c /\ c < end} |-> Checkpoints[v]]

\* Mutant: a threshold the month already stood at is reported again
ReachCheckpoints_Inclusive(start, end) ==
    [v \in {c \in DOMAIN Checkpoints : start <= c /\ c <= end} |-> Checkpoints[v]]

\* Mutant: only the first threshold after start is looked at
ReachCheckpoints_NextOnly(start, end) ==
    [v \in {c \in DOMAIN Checkpoints :
                /\ start < c /\ c <= end
                /\ \A b \in DOMAIN Checkpoints : start < b => c <= b} |-> Checkpoints[v]]

\* VisitCalculator._reach_checkpoints
ReachCheckpoints(start, end) ==
    [v \in {c \in DOMAIN Checkpoints : start < c /\ c <= end} |-> Checkpoints[v]]

\* The checkpoints part of _add_user_visits: the touched months that reached
\* at least one checkpoint
MonthCheckpoints(entry, updated_entry, visits_by_month) ==
    LET of(month) == ReachCheckpoints(CountIn(entry.visits_by_month, month),
                                      CountIn(updated_entry.visits_by_month, month))
    IN  [month \in {m \in DOMAIN visits_by_month : DOMAIN of(m) # {}} |-> of(month)]

\* Mutant: the last visit saved is the latest raw timestamp
AddUserVisits_LatestRaw(data, user, raw_visits) ==
    LET entry == GetByUser(data, user)
        clean_visits == CleanVisits(raw_visits, entry.last_visit)
        visits_by_month == CountVisitsByMonth(clean_visits)
        updated_entry == [EntryAddVisits(entry, visits_by_month)
                            EXCEPT !.last_visit = SortTimes(raw_visits)[Len(raw_visits)]]
    IN  IF clean_visits = <<>> THEN <<entry, <<>>, <<>>>>
        ELSE <<updated_entry, MonthCheckpoints(entry, updated_entry, visits_by_month), clean_visits>>

\* VisitCalculator._add_user_visits: <<entry to save, reached checkpoints,
\* clean visits>>
AddUserVisits(data, user, raw_visits) ==
    LET entry == GetByUser(data, user)
        clean_visits == CleanVisits(raw_visits, entry.last_visit)
        visits_by_month == CountVisitsByMonth(clean_visits)
        updated_entry == [EntryAddVisits(entry, visits_by_month)
                            EXCEPT !.last_visit = clean_visits[Len(clean_visits)]]
    IN  IF clean_visits = <<>> THEN <<entry, <<>>, <<>>>>
        ELSE <<updated_entry, MonthCheckpoints(entry, updated_entry, visits_by_month), clean_visits>>

\* The visits of one user, in the order of the raw list
VisitsOf(raw_visits, user) ==
    LET mine == SelectSeq(raw_visits, LAMBDA visit : visit[1] = user)
    IN  [i \in DOMAIN mine |-> mine[i][2]]

\* The keys of user_visits: the users of the raw list, sorted by full name
GroupedUsers(raw_visits) ==
    SelectSeq(UserNames, LAMBDA u : \E i \in DOMAIN raw_visits : raw_visits[i][1] = u)

\* The (user, month, threshold) of a returned dict
Reported(checkpoints) ==
    UNION {UNION {{<<u, m, c>> : c \in DOMAIN checkpoints[u][m]} :
                    m \in DOMAIN checkpoints[u]} :
             u \in DOMAIN checkpoints}

\* add_visits(raw_visits)
AddVisits(raw_visits) ==
    /\ calls < MaxCalls
    /\ calls' = calls + 1
    /\ rawBatch' = raw_visits
    /\ prevVisits' = visits
    /\ everReached' = everReached \cup Reported(reached)
    /\ IF raw_visits = <<>>
       THEN /\ reached' = <<>>
            /\ accepted' = <<>>
            /\ remoteLog' = <<>>
            /\ visits' = visits
       ELSE LET users == GroupedUsers(raw_visits)
                raw_updates == [i \in DOMAIN users |->
                                  AddUserVisits(visits, users[i], VisitsOf(raw_visits, users[i]))]
                entries == [i \in DOMAIN users |-> raw_updates[i][1]]
                of(u) == raw_updates[CHOOSE i \in DOMAIN users : users[i] = u]
            IN  /\ visits' = VisitsSaveAll(visits, entries)
                /\ remoteLog' = VisitsSaveAllRemote(visits, entries)
                /\ accepted' = [u \in FullNames(entries) |-> of(u)[3]]
                /\ reached' = [u \in {v \in FullNames(entries) : of(v)[2] # <<>>} |-> of(u)[2]]
    /\ UNCHANGED <<ladderVars, storeVars, moduleVars>>

\* The rows the visits table can start from: a user has no row, a row with
\* no last visit and no month, or a row with VeteranCount visits in month 0,
\* the last of them at VeteranLastVisit
VeteranLastVisit == 3 * Distance

InitEntries(user) ==
    {<<>>,
     <<NewEntry(user)>>,
     <<[full_name |-> user, last_visit |-> VeteranLastVisit,
        visits_by_month |-> (Month(VeteranLastVisit) :> VeteranCount)]>>}

RECURSIVE InitVisitTables(_)
InitVisitTables(n) ==
    IF n = 0 THEN {<<>>}
    ELSE {t \o e : <<t, e>> \in InitVisitTables(n - 1) \X InitEntries(UserNames[n])}

\* The raw batches: the empty list, every list of one or two check-ins of
\* the users at the times of ShortTimes, in any order, and for each user the
\* runs of up to MaxFlux historical check-ins, one every Distance hours
RawPool == Users \X ShortTimes

ShortBatches ==
    {<<>>} \cup {<<a>> : a \in RawPool} \cup {<<a, b>> : <<a, b>> \in RawPool \X RawPool}

FluxBatch(user, n) ==
    [i \in 1..n |-> <<user, VeteranLastVisit + i * Distance>>]

FluxBatches == {FluxBatch(u, n) : <<u, n>> \in Users \X (1..MaxFlux)}

InitVisits ==
    /\ visits \in InitVisitTables(Len(UserNames))
    /\ prevVisits = visits
    /\ rawBatch = <<>>
    /\ accepted = <<>>
    /\ reached = <<>>
    /\ everReached = {}
    /\ calls = 0
    /\ remoteLog = <<>>
    /\ standings = <<>>
    /\ matches = [p \in Players |-> <<>>]
    /\ clock = 1
    /\ call = [winner |-> "", loser |-> "", sortRaises |-> FALSE]
    /\ batch = <<>>
    /\ result = [status |-> "none"]
    /\ games = 0
    /\ IndexIdle
    /\ LockIdle
    /\ RefreshIdle
    /\ ModulesIdle

NextVisits == \E raw_visits \in ShortBatches \cup FluxBatches : AddVisits(raw_visits)

SpecVisits == InitVisits /\ [][NextVisits]_vars

\* ------------------------------------------------------------------------
\* Claims about the ladder
\* ------------------------------------------------------------------------
RanksDense(data) == {data[i].rank : i \in DOMAIN data} = 1..Len(data)

RanksFollowRating(data) ==
    \A i, j \in DOMAIN data :
        data[i].rating > data[j].rating => data[i].rank < data[j].rank

\* C1: after one or more game_over calls, from any standings table, the
\* stored ranks of the N standings are exactly 1..N without duplicates, and
\* a strictly higher rating has a strictly smaller rank.
C1_RanksArePermutation ==
    games > 0 => /\ Cardinality(Names(standings)) = Len(standings)
                 /\ RanksDense(standings)
                 /\ RanksFollowRating(standings)

\* C1 witness: a table of three standings after two matches, the latest of
\* which moved the rank of all three
C1_Witness ==
    /\ games >= 2
    /\ Len(standings) = 3
    /\ Len(batch) = 3

\* C2: the batch handed to save_all holds exactly the standings whose stored
\* rank differs from the recomputed one plus the winner and the loser, each
\* once; every entry carries the recomputed rank, and the winner's and the
\* loser's entries carry the new rating and the incremented win / loss count.
C2_BatchIsExact ==
    [][games' # games =>
        LET w == call'.winner
            l == call'.loser
            old_w == GetStanding(standings, w)
            old_l == GetStanding(standings, l)
            stored(p) == GetStanding(standings, p).rank
            recomputed(p) == GetStanding(standings', p).rank
            moved == {p \in Names(standings) : stored(p) # recomputed(p)}
            new_ratings == EloGameOver(old_w.rating, old_l.rating)
        IN  /\ RanksDense(standings') /\ RanksFollowRating(standings')
            /\ Names(batch') = moved \cup {w, l}
            /\ Len(batch') = Cardinality(Names(batch'))
            /\ \A i \in DOMAIN batch' :
                   batch'[i].rank = recomputed(batch'[i].player_name)
            /\ GetStanding(batch', w).rating = new_ratings[1]
            /\ GetStanding(batch', w).wins = old_w.wins + 1
            /\ GetStanding(batch', w).losses = old_w.losses
            /\ GetStanding(batch', l).rating = new_ratings[2]
            /\ GetStanding(batch', l).losses = old_l.losses + 1
            /\ GetStanding(batch', l).wins = old_l.wins
    ]_vars

\* C2 witness: the winner kept their rank and is in the batch all the same,
\* together with a player who did not play
C2_Witness ==
    /\ result.status = "returned"
    /\ result.winner.rank.delta = 0
    /\ call.winner \in Names(batch)
    /\ \E i \in DOMAIN batch : batch[i].player_name \notin {call.winner, call.loser}

\* C3: the streak game_over reports continues a streak of the same sign by
\* one and otherwise restarts at +1 for the winner and -1 for the loser.
C3_StreakAdvance ==
    result.status = "returned" =>
        /\ result.winner.streak.after =
              IF result.winner.streak.before > 0
              THEN result.winner.streak.before + 1 ELSE 1
        /\ result.loser.streak.after =
              IF result.loser.streak.before < 0
              THEN result.loser.streak.before - 1 ELSE -1
        /\ (result.winner.streak.before = 2 => result.winner.streak.after = 3)
        /\ (result.loser.streak.before = 2 => result.loser.streak.after = -1)

\* C3 witness: a player on a streak of +2 loses and is reported at -1
C3_Witness ==
    /\ result.status = "returned"
    /\ result.loser.streak.before = 2
    /\ result.loser.streak.after = -1

\* C23: a remote I/O failure during any write path of a Table (insert_all,
\* update_all, TasksTable.save, and the standings save_all including its
\* remote re-sort) is recovered locally: it is logged, no exception reaches
\* the caller, and the operation that triggered it (for example game_over)
\* runs to completion.  Here: a game_over whose remote re-sort fails
\* returns its result and has inserted the match.
C23_RemoteFailureRecovered ==
    call.sortRaises =>
        /\ result.status = "returned"
        /\ \E i \in DOMAIN matches[call.winner] : matches[call.winner][i].loser = call.loser

FirstMatchFromDefault ==
    games' # games =>
        \A p \in {call'.winner, call'.loser} \ Names(standings) :
            LET base == EloBaseRating * Scale
                won == p = call'.winner
                other == IF won THEN call'.loser ELSE call'.winner
                other_rating == IF other \in Names(standings)
                                THEN standings[IndexOf(standings, other)].rating ELSE base
                new_rating == IF won THEN EloGameOver(base, other_rating)[1]
                              ELSE EloGameOver(other_rating, base)[2]
                stored == standings'[IndexOf(standings', p)]
                told == IF won THEN result'.winner ELSE result'.loser
            IN  /\ p \in Names(standings')
                /\ stored.rating = new_rating
                /\ stored.wins = (IF won THEN 1 ELSE 0)
                /\ stored.losses = (IF won THEN 0 ELSE 1)
                /\ result'.status = "returned" =>
                      /\ told.rating.before = base
                      /\ told.rating.after = new_rating
                      /\ told.rank.before = 1

\* C28: a player with no stored Standing enters their first match with a
\* default Standing (base rating, rank 1, zero wins and zero losses) that is
\* materialized before the rating delta is computed; after game_over the
\* player has a stored Standing with exactly one win or one loss.
C28_FirstMatchFromDefault == [][FirstMatchFromDefault]_vars

\* C28 witness: the first game_over of a table was won by a player who had no
\* standing and lost by one who had; the newcomer is the last row
C28_Witness ==
    /\ games = 1
    /\ result.status = "returned"
    /\ Len(standings) >= 2
    /\ standings[Len(standings)].player_name = call.winner
    /\ standings[Len(standings)].wins = 1
    /\ standings[Len(standings)].losses = 0
    /\ result.winner.rating.before = EloBaseRating * Scale
    /\ result.loser.rating.before # EloBaseRating * Scale

OnlyRankMoves ==
    games' # games =>
        LET w == call'.winner
            l == call'.loser
        IN  /\ \A p \in Names(standings) \ {w, l} :
                  /\ p \in Names(standings')
                  /\ \A f \in StandingFields \ {"rank"} :
                        GetStanding(standings', p)[f] = GetStanding(standings, p)[f]
            /\ Names(standings') = Names(standings) \cup {w, l}
            /\ GetStanding(standings', w).wins = GetStanding(standings, w).wins + 1
            /\ GetStanding(standings', w).losses = GetStanding(standings, w).losses
            /\ GetStanding(standings', l).losses = GetStanding(standings, l).losses + 1
            /\ GetStanding(standings', l).wins = GetStanding(standings, l).wins

\* C31: game_over changes, for players who did not take part in the match,
\* nothing but their rank: their rating, wins and losses are unchanged; for
\* the participants, the winner's wins increase by exactly 1 with losses
\* unchanged and the loser's losses increase by exactly 1 with wins
\* unchanged.
C31_OnlyRankMoves == [][OnlyRankMoves]_vars

\* C31 witness: a player who has played before sits out a match that moves
\* their rank
C31_Witness ==
    \E i \in DOMAIN batch :
        /\ batch[i].player_name \notin {call.winner, call.loser}
        /\ batch[i].wins + batch[i].losses > 0
        /\ GetStanding(standings, batch[i].player_name) = batch[i]

\* The stored matches a player appears in
MatchesOf(p) == Cardinality({i \in DOMAIN matches[p] : p \in {matches[p][i].winner, matches[p][i].loser}})

\* C32: starting from empty standings and matches tables, in every state
\* reached between game_over calls (including calls in which a remote call
\* fails) each player's wins + losses equals the number of stored Match
\* records in which the player appears: a standings batch is never applied
\* without its Match record being recorded.
C32_GamesMatchRecords ==
    \A p \in Players :
        GetStanding(standings, p).wins + GetStanding(standings, p).losses = MatchesOf(p)

\* A game_over that returns keeps the tally: the wins and losses of each
\* player grow by the matches recorded for them
ReturnedKeepsTally ==
    (games' # games /\ result'.status = "returned") =>
        \A p \in Players :
            (GetStanding(standings', p).wins + GetStanding(standings', p).losses)
                - (GetStanding(standings, p).wins + GetStanding(standings, p).losses)
            = Cardinality(DOMAIN matches'[p]) - Cardinality(DOMAIN matches[p])

GamesMatchRecordsWhenReturned == [][ReturnedKeepsTally]_vars

\* C33: the streak that game_over reports as 'after' for each participant
\* equals the streak that PingPongMatchesTable.get_streak derives from the
\* stored match history once the new Match has been inserted (the count,
\* signed by outcome, of the player's most recent consecutive same-outcome
\* matches).
C33_StreakFromHistory ==
    result.status = "returned" =>
        /\ result.winner.streak.after = GetStreak(matches, call.winner)
        /\ result.loser.streak.after = GetStreak(matches, call.loser)
        /\ \A p \in {call.winner, call.loser} :
              LET list == matches[p]
                  won(i) == list[i].winner = p
                  run == {n \in 1..Len(list) :
                            \A i \in (Len(list) - n + 1)..Len(list) : won(i) = won(Len(list))}
                  n == Cardinality(run)
              IN  GetStreak(matches, p) = IF won(Len(list)) THEN n ELSE 0 - n

\* C33 witness: the winner ends a losing run of two, the loser a winning run
\* of two
C33_Witness ==
    /\ result.status = "returned"
    /\ result.winner.streak.before = -2
    /\ result.winner.streak.after = 1
    /\ result.loser.streak.before = 2
    /\ Len(matches[call.winner]) = 3

\* ------------------------------------------------------------------------
\* Claims about the visit accumulator
\* ------------------------------------------------------------------------
\* The users of the latest call, their raw timestamps and their entry before
\* and after the call
CallUsers == {rawBatch[i][1] : i \in DOMAIN rawBatch}

RawTimes(u) == {rawBatch[i][2] : i \in {j \in DOMAIN rawBatch : rawBatch[j][1] = u}}

Before(u) == GetByUser(prevVisits, u)

After(u) == GetByUser(visits, u)

Accepted(u) == IF u \in DOMAIN accepted THEN accepted[u] ELSE <<>>

AcceptedTimes(u) == {Accepted(u)[i] : i \in DOMAIN Accepted(u)}

AcceptedIn(u, m) == Cardinality({i \in DOMAIN Accepted(u) : Month(Accepted(u)[i]) = m})

TouchedMonths(u) == {Month(t) : t \in AcceptedTimes(u)}

MonthsSeen(u) ==
    DOMAIN Before(u).visits_by_month \cup DOMAIN After(u).visits_by_month
        \cup TouchedMonths(u)

IsReported(u, m, c) == <<u, m, c>> \in Reported(reached)

Largest(S) == CHOOSE x \in S : \A y \in S : y <= x

Smallest(S) == CHOOSE x \in S : \A y \in S : x <= y

C5_Original ==
    \A u \in CallUsers : \A m \in TouchedMonths(u) : \A c \in DOMAIN Checkpoints :
        IsReported(u, m, c) <=>
            /\ CountIn(Before(u).visits_by_month, m) <= c
            /\ CountIn(After(u).visits_by_month, m) > c

\* C5 amended: for a touched month a threshold is reported exactly when the
\* stored count before the call is < the threshold and the stored count
\* after the call is >= the threshold.
C5_ReachedOnArrival ==
    \A u \in CallUsers : \A m \in TouchedMonths(u) : \A c \in DOMAIN Checkpoints :
        IsReported(u, m, c) <=>
            /\ CountIn(Before(u).visits_by_month, m) < c
            /\ CountIn(After(u).visits_by_month, m) >= c

\* C5 witness: a month arrives at a threshold without passing it, and the
\* threshold is reported
C5_Witness ==
    \E u \in CallUsers : \E m \in TouchedMonths(u) : \E c \in DOMAIN Checkpoints :
        /\ CountIn(Before(u).visits_by_month, m) < c
        /\ CountIn(After(u).visits_by_month, m) = c
        /\ IsReported(u, m, c)

\* C6: one call reports every configured threshold that the call crossed,
\* for the month that crossed it, and nothing else; with thresholds 5 and 10
\* a month going from 4 to 6 reports 5 only, one going from 4 to 11 reports
\* 5 and 10.
C6_EveryCrossedThreshold ==
    /\ Reported(reached) =
          UNION {{<<u, m, c>> : c \in {d \in DOMAIN Checkpoints :
                                          /\ CountIn(Before(u).visits_by_month, m) < d
                                          /\ d <= CountIn(After(u).visits_by_month, m)}} :
                   <<u, m>> \in {<<v, n>> \in Users \X UNION {MonthsSeen(w) : w \in Users} :
                                    n \in MonthsSeen(v)}}
    /\ \A u \in Users : \A m \in MonthsSeen(u) :
          LET before == CountIn(Before(u).visits_by_month, m)
              after  == CountIn(After(u).visits_by_month, m)
              told   == {c \in DOMAIN Checkpoints : IsReported(u, m, c)}
          IN  /\ (before = 4 /\ after = 6) => told = {5}
              /\ (before = 4 /\ after = 11) => told = {5, 10}

\* C6 witness: a month goes from 4 to 11 visits in one call and both
\* thresholds are reported
C6_Witness ==
    \E u \in CallUsers : \E m \in TouchedMonths(u) :
        /\ CountIn(Before(u).visits_by_month, m) = 4
        /\ CountIn(After(u).visits_by_month, m) = 11
        /\ IsReported(u, m, 5) /\ IsReported(u, m, 10)

\* C7: a (user, month, threshold) that an earlier call reported is not
\* reported by a later call.
C7_ReportedAtMostOnce == Reported(reached) \cap everReached = {}

\* C7 witness: a month whose threshold an earlier call reported gets more
\* visits in a later call
C7_Witness ==
    \E r \in everReached :
        /\ r[1] \in CallUsers
        /\ r[2] \in TouchedMonths(r[1])
        /\ CountIn(Before(r[1]).visits_by_month, r[2]) >= r[3]

\* C8: the stored count of every month after the call is the count before
\* the call plus the number of accepted timestamps of the batch in that
\* month; untouched months keep their count and only touched months report
\* checkpoints.
C8_PerMonthAccumulation ==
    \A u \in Users :
        /\ \A m \in MonthsSeen(u) :
              CountIn(After(u).visits_by_month, m) =
                  CountIn(Before(u).visits_by_month, m) + AcceptedIn(u, m)
        /\ \A m \in MonthsSeen(u) \ TouchedMonths(u) :
              /\ CountIn(After(u).visits_by_month, m) = CountIn(Before(u).visits_by_month, m)
              /\ \A c \in DOMAIN Checkpoints : ~IsReported(u, m, c)

\* C8 witness: one batch adds to two months, one of which had visits
\* before, and reaches a checkpoint in both
C8_Witness ==
    \E u \in CallUsers : \E m1, m2 \in TouchedMonths(u) :
        /\ m1 # m2
        /\ CountIn(Before(u).visits_by_month, m1) > 0
        /\ \E c \in DOMAIN Checkpoints : IsReported(u, m1, c)
        /\ \E c \in DOMAIN Checkpoints : IsReported(u, m2, c)

RemoteKeys ==
    UNION {{remoteLog[i].rows[j].key : j \in DOMAIN remoteLog[i].rows} : i \in DOMAIN remoteLog}

\* C9: a user whose batch is empty or wholly removed by the cleaning keeps
\* the stored last visit and month counts, gets no checkpoint and no remote
\* write.
C9_NoOpBatch ==
    calls > 0 =>
        /\ rawBatch = <<>> => (visits = prevVisits /\ reached = <<>> /\ remoteLog = <<>>)
        /\ \A u \in Users :
              Accepted(u) = <<>> =>
                  /\ After(u) = Before(u)
                  /\ (u \in FullNames(visits)) = (u \in FullNames(prevVisits))
                  /\ u \notin DOMAIN reached
                  /\ u \notin RemoteKeys

\* C9 witness: a batch of two users, one wholly cleaned away, the other
\* written to the remote sheet
C9_Witness ==
    \E u, v \in CallUsers :
        /\ Accepted(u) = <<>>
        /\ Accepted(v) # <<>>
        /\ v \in RemoteKeys

\* C10: no month count of a user decreases and the stored last visit does
\* not move backwards.
C10_Monotone ==
    \A u \in Users :
        /\ \A m \in MonthsSeen(u) :
              CountIn(After(u).visits_by_month, m) >= CountIn(Before(u).visits_by_month, m)
        /\ Before(u).last_visit # None =>
              /\ After(u).last_visit # None
              /\ After(u).last_visit >= Before(u).last_visit

\* C10 witness: a second call moves a stored last visit forward and adds to
\* a month that had visits
C10_Witness ==
    /\ calls = 2
    /\ \E u \in CallUsers :
          /\ Before(u).last_visit # None
          /\ After(u).last_visit > Before(u).last_visit
          /\ \E m \in TouchedMonths(u) : CountIn(Before(u).visits_by_month, m) > 0

\* The update_cells calls of the latest add_visits and the rows they patch
Patches == {i \in DOMAIN remoteLog : remoteLog[i].op = "update_cells"}

PatchedCells(u) ==
    UNION {{remoteLog[i].rows[j].cells : j \in {k \in DOMAIN remoteLog[i].rows :
                                                   remoteLog[i].rows[k].key = u}} :
             i \in Patches}

\* The columns in which the row stored for u after the call differs from the
\* one stored before it
ChangedColumns(u) ==
    [full_name  |-> FALSE,
     last_visit |-> Before(u).last_visit # After(u).last_visit,
     months     |-> {m \in MonthsSeen(u) :
                        CountIn(Before(u).visits_by_month, m) #
                            CountIn(After(u).visits_by_month, m)}]

Unchanged(u) == ~ChangedColumns(u).last_visit /\ ChangedColumns(u).months = {}

Stale(u) ==
    IF Before(u).last_visit = None THEN {}
    ELSE {t \in RawTimes(u) : t <= Before(u).last_visit}

\* C29: timestamps of a batch that are not strictly after the user's stored
\* last-visit are discarded before counting: they never increase any month
\* count and never change last-visit, regardless of their position in the
\* batch.
C29_StaleDiscarded ==
    \A u \in CallUsers :
        LET fresh == AcceptedTimes(u) \ Stale(u)
        IN  /\ AcceptedTimes(u) \cap Stale(u) = {}
            /\ \A m \in MonthsSeen(u) :
                  CountIn(After(u).visits_by_month, m) =
                      CountIn(Before(u).visits_by_month, m)
                          + Cardinality({t \in fresh : Month(t) = m})
            /\ After(u).last_visit # Before(u).last_visit => After(u).last_visit \in fresh
            /\ RawTimes(u) \subseteq Stale(u) => After(u) = Before(u)

\* C29 witness: a stale timestamp comes after a fresh one in the batch of a
\* user; the fresh one is counted
C29_Witness ==
    \E u \in CallUsers : \E i, j \in DOMAIN rawBatch :
        /\ i < j
        /\ rawBatch[i][1] = u /\ rawBatch[j][1] = u
        /\ rawBatch[j][2] \in Stale(u)
        /\ rawBatch[i][2] \in AcceptedTimes(u)
        /\ After(u).last_visit = rawBatch[i][2]

\* C30: when at least one timestamp of a user's batch survives
\* deduplication, add_visits sets the user's stored last-visit to the latest
\* surviving (accepted) timestamp, not to the latest raw timestamp of the
\* batch.
C30_LastVisitIsLatestAccepted ==
    \A u \in CallUsers :
        Accepted(u) # <<>> =>
            /\ u \in FullNames(visits)
            /\ After(u).last_visit = Largest(AcceptedTimes(u))
            /\ After(u).last_visit = Accepted(u)[Len(Accepted(u))]

\* C30 witness: the latest raw timestamp of a user was rejected and an
\* earlier one is the stored last visit
C30_Witness ==
    \E u \in CallUsers :
        /\ Accepted(u) # <<>>
        /\ Largest(RawTimes(u)) \notin AcceptedTimes(u)
        /\ After(u).last_visit < Largest(RawTimes(u))

\* ------------------------------------------------------------------------
\* The index variants (integrations/google/sheets/contracts/index.py and
\* integrations/google/sheets/indexes)
\* ------------------------------------------------------------------------
\* A model is [id, ver, keys]: id is what __eq__ and __hash__ of the model
\* compare (User.full_name, TaskList.id), ver stands for the other fields
\* (and is what the sorter of a sorted bucket returns), keys[i] is what the
\* i-th key predicate of the index returns for the model, NoKey for None.
\* The keys of the prefix search are strings, kept as sequences of letters.
NoKey == "None"

Alex      == <<1>>
Alexan    == <<1, 2>>
Alexandru == <<1, 2, 1>>
Alexandra == <<1, 2, 2>>
Bo        == <<2, 2>>
Blank     == << >>

Letters == {1, 2}

\* Every string of at most three letters
Queries == UNION {[1..n -> Letters] : n \in {0, 1, 2, 3}}

Variants == {"unique", "bucket", "sorted", "prefix"}

Ids == {"u1", "u2", "u3"}

Vers == {1, 2}

\* What the key predicates can return for a model of each index: a unique
\* key is the model's own or None, a bucket key is shared or None, a sorted
\* bucket has two predicates (winner and loser of a match), and the search
\* keys of a record are its names, an empty name among them
KeyLists(v, id) ==
    CASE v = "unique" -> {<<NoKey>>, <<id>>}
      [] v = "bucket" -> {<<NoKey>>, <<"x">>, <<"y">>}
      [] v = "sorted" -> {<<"x", "y">>, <<"x", NoKey>>}
      [] v = "prefix" ->
           CASE id = "u1" -> {<<Alex>>, <<Blank, Bo>>}
             [] id = "u2" -> {<<Alexandru>>, <<Alex>>}
             [] id = "u3" -> {<<Alexandra>>}

\* The sorted buckets are tried with two models, the other indexes with three
IdsOf(v) == IF v = "sorted" THEN {"u1", "u2"} ELSE Ids

ModelsOf ==
    [v \in Variants |->
        UNION {{[id |-> i, ver |-> n, keys |-> k] : n \in Vers, k \in KeyLists(v, i)} : i \in IdsOf(v)}]

\* Lists of one or two models with different ids
Batches(S) ==
    {<<m>> : m \in S} \cup {<<a, b>> : <<a, b>> \in {p \in S \X S : p[1].id # p[2].id}}

BatchesOf == [v \in Variants |-> Batches(ModelsOf[v])]

\* What an update can replace a model by: the models with its id
OtherVersions ==
    [v \in Variants |-> [m \in ModelsOf[v] |-> {n \in ModelsOf[v] : n.id = m.id /\ n # m}]]

Range(list) == {list[i] : i \in DOMAIN list}

\* --- Python dict and set, with the models' __eq__ and __hash__ ---
\* d[k] = v and del d[k] on a dict kept as a function
DictSet(d, k, v) == [x \in DOMAIN d \cup {k} |-> IF x = k THEN v ELSE d[x]]

DictDel(d, k) == [x \in DOMAIN d \ {k} |-> d[x]]

\* m in s, s.add(m), s.remove(m), a |= b on a set of models: an element equal
\* to one the set already holds is not held again
SetHas(s, m) == \E r \in s : r.id = m.id

SetAdd(s, m) == IF SetHas(s, m) THEN s ELSE s \cup {m}

SetRemove(s, m) == {r \in s : r.id # m.id}

SetUnion(a, b) == a \cup {m \in b : ~SetHas(a, m)}

Raise(st) == [st EXCEPT !.raised = TRUE]

\* --- UniqueIndex ---
RECURSIVE UniqueIndexInsertInner(_, _, _)
UniqueIndexInsertInner(st, model, i) ==
    IF i > Len(model.keys) THEN st
    ELSE LET key == model.keys[i]
         IN  IF key = NoKey THEN st
             ELSE UniqueIndexInsertInner([st EXCEPT !.data = DictSet(@, key, model)], model, i + 1)

\* del self._data[key] raises KeyError for a key the dict does not hold
RECURSIVE UniqueIndexDeleteInner(_, _, _)
UniqueIndexDeleteInner(st, model, i) ==
    IF i > Len(model.keys) THEN st
    ELSE LET key == model.keys[i]
         IN  IF key = NoKey THEN st
             ELSE IF key \notin DOMAIN st.data THEN Raise(st)
             ELSE UniqueIndexDeleteInner([st EXCEPT !.data = DictDel(@, key)], model, i + 1)

\* --- BucketIndex ---
RECURSIVE BucketIndexInsertInner(_, _, _)
BucketIndexInsertInner(st, model, i) ==
    IF i > Len(model.keys) THEN st
    ELSE LET key == model.keys[i]
             bucket == IF key \in DOMAIN st.data THEN st.data[key] ELSE {}
         IN  IF key = NoKey THEN st
             ELSE BucketIndexInsertInner(
                      [st EXCEPT !.data = DictSet(@, key, SetAdd(bucket, model))], model, i + 1)

\* set.remove raises KeyError for a model the bucket does not hold
RECURSIVE BucketIndexDeleteInner(_, _, _)
BucketIndexDeleteInner(st, model, i) ==
    IF i > Len(model.keys) THEN st
    ELSE LET key == model.keys[i]
         IN  IF key = NoKey THEN st
             ELSE IF key \notin DOMAIN st.data THEN st
             ELSE IF ~SetHas(st.data[key], model) THEN Raise(st)
             ELSE LET rest == SetRemove(st.data[key], model)
                      data == IF rest = {} THEN DictDel(st.data, key)
                              ELSE DictSet(st.data, key, rest)
                  IN  BucketIndexDeleteInner([st EXCEPT !.data = data], model, i + 1)

\* --- SortedBucketIndex ---
\* model in bucket: the models kept in sorted buckets (PingPongMatch,
\* Nomination) are dataclasses that compare field by field
ListHas(list, m) == \E i \in DOMAIN list : list[i] = m

\* list.remove(m): the first element equal to m goes
ListRemove(list, m) ==
    LET at == CHOOSE i \in DOMAIN list :
                  /\ list[i] = m
                  /\ \A j \in 1..(i - 1) : list[j] # m
    IN  SubSeq(list, 1, at - 1) \o SubSeq(list, at + 1, Len(list))

\* Mutant: the model goes to the end of the bucket
Insort_Append(list, model) == Append(list, model)

\* bisect.insort_left(bucket, model, key=sorter)
Insort(list, model) ==
    LET before == SelectSeq(list, LAMBDA m : m.ver < model.ver)
        after  == SelectSeq(list, LAMBDA m : m.ver >= model.ver)
    IN  before \o <<model>> \o after

RECURSIVE SortedBucketIndexInsertInner(_, _, _)
SortedBucketIndexInsertInner(st, model, i) ==
    IF i > Len(model.keys) THEN st
    ELSE LET key == model.keys[i]
             bucket == IF key \in DOMAIN st.data THEN st.data[key] ELSE <<>>
             created == [st EXCEPT !.data = DictSet(@, key, bucket)]
         IN  IF key = NoKey THEN st
             ELSE IF ListHas(bucket, model) THEN created
             ELSE SortedBucketIndexInsertInner(
                      [st EXCEPT !.data = DictSet(@, key, Insort(bucket, model))], model, i + 1)

\* list.remove raises ValueError for a model the bucket does not hold
RECURSIVE SortedBucketIndexDeleteInner(_, _, _)
SortedBucketIndexDeleteInner(st, model, i) ==
    IF i > Len(model.keys) THEN st
    ELSE LET key == model.keys[i]
         IN  IF key = NoKey THEN st
             ELSE IF key \notin DOMAIN st.data THEN st
             ELSE IF ~ListHas(st.data[key], model) THEN Raise(st)
             ELSE LET rest == ListRemove(st.data[key], model)
                      data == IF rest = <<>> THEN DictDel(st.data, key)
                              ELSE DictSet(st.data, key, rest)
                  IN  SortedBucketIndexDeleteInner([st EXCEPT !.data = data], model, i + 1)

RECURSIVE UpdateBucketLoop(_, _, _)
UpdateBucketLoop(st, models, i) ==
    IF i > Len(models) THEN st
    ELSE UpdateBucketLoop(SortedBucketIndexInsertInner(st, models[i], 1), models, i + 1)

\* SortedBucketIndex.update_bucket
SortedBucketIndexUpdateBucket(st, key, models) ==
    UpdateBucketLoop([st EXCEPT !.data = DictSet(@, key, <<>>), !.raised = FALSE], models, 1)

\* --- PrefixSearchIndex: _unique and _data are dicts in insertion order,
\* kept as sequences of [key, handles] ---
OdHas(d, k) == \E i \in DOMAIN d : d[i].key = k

OdGet(d, k) == d[CHOOSE i \in DOMAIN d : d[i].key = k].handles

OdSet(d, k, v) ==
    IF OdHas(d, k)
    THEN [i \in DOMAIN d |-> IF d[i].key = k THEN [key |-> k, handles |-> v] ELSE d[i]]
    ELSE Append(d, [key |-> k, handles |-> v])

OdDel(d, k) == SelectSeq(d, LAMBDA e : e.key # k)

OdKeys(d) == {d[i].key : i \in DOMAIN d}

\* key.startswith(prefix)
StartsWith(key, prefix) ==
    /\ Len(prefix) <= Len(key)
    /\ SubSeq(key, 1, Len(prefix)) = prefix

\* query in key
Contains(key, query) ==
    \E i \in 0..(Len(key) - Len(query)) : SubSeq(key, i + 1, i + Len(query)) = query

\* a < b on str
RECURSIVE StrLess(_, _)
StrLess(a, b) ==
    IF a = <<>> THEN b # <<>>
    ELSE IF b = <<>> THEN FALSE
    ELSE IF Head(a) = Head(b) THEN StrLess(Tail(a), Tail(b))
    ELSE Head(a) < Head(b)

\* sorted_keys.sort()
RECURSIVE SortKeys(_)
SortKeys(S) ==
    IF S = {} THEN <<>>
    ELSE LET first == CHOOSE k \in S : \A o \in S \ {k} : StrLess(k, o)
         IN  <<first>> \o SortKeys(S \ {first})

\* The while loop of _merge_search_prefixes (indexes from 1): the sets of
\* _data are the sets of _unique (dict.copy is shallow), so what |= adds to
\* the set of a prefix is added in _unique as well
RECURSIVE MergeLoop(_, _, _, _)
MergeLoop(d, sorted_keys, prefix_i, current_i) ==
    IF current_i > Len(sorted_keys) THEN d
    ELSE LET prefix == sorted_keys[prefix_i]
             key    == sorted_keys[current_i]
         IN  IF StartsWith(key, prefix)
             THEN MergeLoop(OdSet(d, prefix, SetUnion(OdGet(d, prefix), OdGet(d, key))),
                            sorted_keys, prefix_i, current_i + 1)
             ELSE MergeLoop(d, sorted_keys, prefix_i + 1, prefix_i + 2)

\* _data = _unique.copy() with no key merged into a shorter one
MergeSearchPrefixes_CopyOnly(st) == [data |-> st.unique, unique |-> st.unique, raised |-> FALSE]

\* PrefixSearchIndex._merge_search_prefixes
MergeSearchPrefixes(st) ==
    LET merged == MergeLoop(st.unique, SortKeys(OdKeys(st.unique)), 1, 2)
    IN  [data |-> merged, unique |-> merged, raised |-> FALSE]

\* What _data holds when a call raised before it merged: the keys it had,
\* each with its set as the call left it (the set of a key that the call
\* deleted from _unique is empty)
Unmerged(st) ==
    [st EXCEPT !.data = [i \in DOMAIN st.data |->
        [key |-> st.data[i].key,
         handles |-> IF OdHas(st.unique, st.data[i].key)
                     THEN OdGet(st.unique, st.data[i].key) ELSE {}]]]

\* The loop of _insert_all_inner over the keys of one model
RECURSIVE PrefixInsertKeys(_, _, _)
PrefixInsertKeys(st, model, i) ==
    IF st.raised \/ i > Len(model.keys) THEN st
    ELSE LET key   == model.keys[i]
             fresh == IF OdHas(st.data, key) THEN st.unique ELSE OdSet(st.unique, key, {})
         IN  IF key = Blank THEN PrefixInsertKeys(st, model, i + 1)
             ELSE IF ~OdHas(fresh, key) THEN Raise(st)
             ELSE PrefixInsertKeys(
                      [st EXCEPT !.unique = OdSet(fresh, key, SetAdd(OdGet(fresh, key), model))],
                      model, i + 1)

RECURSIVE PrefixInsertModels(_, _, _)
PrefixInsertModels(st, models, j) ==
    IF st.raised \/ j > Len(models) THEN st
    ELSE PrefixInsertModels(PrefixInsertKeys(st, models[j], 1), models, j + 1)

\* PrefixSearchIndex._insert_all_inner
PrefixSearchIndexInsertAllInner(st, models) ==
    LET done == PrefixInsertModels(st, models, 1)
    IN  IF done.raised THEN Unmerged(done) ELSE MergeSearchPrefixes(done)

\* The loop of _delete_all_inner over the keys of one model
RECURSIVE PrefixDeleteKeys(_, _, _)
PrefixDeleteKeys(st, model, i) ==
    IF st.raised \/ i > Len(model.keys) THEN st
    ELSE LET key == model.keys[i]
         IN  IF key = Blank \/ ~OdHas(st.data, key) THEN PrefixDeleteKeys(st, model, i + 1)
             ELSE IF ~OdHas(st.unique, key) THEN Raise(st)
             ELSE IF ~SetHas(OdGet(st.unique, key), model) THEN Raise(st)
             ELSE LET rest == SetRemove(OdGet(st.unique, key), model)
                      unique == IF rest = {} THEN OdDel(st.unique, key)
                                ELSE OdSet(st.unique, key, rest)
                  IN  PrefixDeleteKeys([st EXCEPT !.unique = unique], model, i + 1)

RECURSIVE PrefixDeleteModels(_, _, _)
PrefixDeleteModels(st, models, j) ==
    IF st.raised \/ j > Len(models) THEN st
    ELSE PrefixDeleteModels(PrefixDeleteKeys(st, models[j], 1), models, j + 1)

\* PrefixSearchIndex._delete_all_inner
PrefixSearchIndexDeleteAllInner(st, models) ==
    LET done == PrefixDeleteModels(st, models, 1)
    IN  IF done.raised THEN Unmerged(done) ELSE MergeSearchPrefixes(done)

\* PrefixSearchIndex._exact_match
ExactMatch(st, query) == IF OdHas(st.data, query) THEN OdGet(st.data, query) ELSE {}

RECURSIVE PartialMatchLoop(_, _, _, _)
PartialMatchLoop(d, query, i, results) ==
    IF i > Len(d) THEN results
    ELSE PartialMatchLoop(d, query, i + 1,
             IF Contains(d[i].key, query) THEN SetUnion(results, d[i].handles) ELSE results)

\* PrefixSearchIndex._partial_match
PartialMatch(st, query) == PartialMatchLoop(st.data, query, 1, {})

\* PrefixSearchIndex._get_inner: an empty exact match is falsy
PrefixSearchIndexGetInner(st, query) ==
    IF ExactMatch(st, query) # {} THEN ExactMatch(st, query) ELSE PartialMatch(st, query)

\* --- Index: the calls shared by the variants ---
InsertInner(v, st, model) ==
    CASE v = "unique" -> UniqueIndexInsertInner(st, model, 1)
      [] v = "bucket" -> BucketIndexInsertInner(st, model, 1)
      [] v = "sorted" -> SortedBucketIndexInsertInner(st, model, 1)
      [] v = "prefix" -> PrefixSearchIndexInsertAllInner(st, <<model>>)

DeleteInner(v, st, model) ==
    CASE v = "unique" -> UniqueIndexDeleteInner(st, model, 1)
      [] v = "bucket" -> BucketIndexDeleteInner(st, model, 1)
      [] v = "sorted" -> SortedBucketIndexDeleteInner(st, model, 1)
      [] v = "prefix" -> PrefixSearchIndexDeleteAllInner(st, <<model>>)

RECURSIVE InsertAllLoop(_, _, _, _)
InsertAllLoop(v, st, models, j) ==
    IF st.raised \/ j > Len(models) THEN st
    ELSE InsertAllLoop(v, InsertInner(v, st, models[j]), models, j + 1)

\* Index._insert_all_inner and its override
InsertAllInner(v, st, models) ==
    IF v = "prefix" THEN PrefixSearchIndexInsertAllInner(st, models)
    ELSE InsertAllLoop(v, st, models, 1)

RECURSIVE DeleteAllLoop(_, _, _, _)
DeleteAllLoop(v, st, models, j) ==
    IF st.raised \/ j > Len(models) THEN st
    ELSE DeleteAllLoop(v, DeleteInner(v, st, models[j]), models, j + 1)

\* Index._delete_all_inner and its override
DeleteAllInner(v, st, models) ==
    IF v = "prefix" THEN PrefixSearchIndexDeleteAllInner(st, models)
    ELSE DeleteAllLoop(v, st, models, 1)

Entered(st) == [st EXCEPT !.raised = FALSE]

IndexInsert(v, st, model) == InsertInner(v, Entered(st), model)

IndexInsertAll(v, st, models) == InsertAllInner(v, Entered(st), models)

IndexUpdate(v, st, old, new) ==
    LET deleted == DeleteInner(v, Entered(st), old)
    IN  IF deleted.raised THEN deleted ELSE InsertInner(v, deleted, new)

\* changes is a list of (old, new)
IndexUpdateAll(v, st, changes) ==
    LET old == [i \in DOMAIN changes |-> changes[i][1]]
        new == [i \in DOMAIN changes |-> changes[i][2]]
        deleted == DeleteAllInner(v, Entered(st), old)
    IN  IF deleted.raised THEN deleted ELSE InsertAllInner(v, deleted, new)

IndexDelete(v, st, model) == DeleteInner(v, Entered(st), model)

IndexDeleteAll(v, st, models) == DeleteAllInner(v, Entered(st), models)

IndexReset(v, st, initial) == InsertAllInner(v, EmptyIndex, initial)

\* What get(key) returns: a model, a set, a list, or None (found is FALSE)
IndexGetInner(v, st, key) ==
    IF v = "prefix" THEN [found |-> TRUE, value |-> PrefixSearchIndexGetInner(st, key)]
    ELSE IF key \in DOMAIN st.data THEN [found |-> TRUE, value |-> st.data[key]]
    ELSE [found |-> FALSE, value |-> {}]

\* The models a get(key) hands to its caller
Returned(v, st, key) ==
    LET got == IndexGetInner(v, st, key)
    IN  CASE ~got.found    -> {}
          [] v = "unique"  -> {got.value}
          [] v = "sorted"  -> Range(got.value)
          [] OTHER         -> got.value

\* The keys a caller can ask each variant for
QueryKeys(v) == IF v = "prefix" THEN Queries ELSE {"x", "y", NoKey} \cup Ids

\* --- the calls on an index ---
SameId(list) == \A i, j \in DOMAIN list : list[i].id = list[j].id => i = j

HeldIds == {m.id : m \in held}

\* reset discards what the index held, so its outcome is the same from
\* every state: it is taken on the empty index.  A call that raised ends
\* the behaviour: the exception leaves through the caller.
Reset(initial) ==
    /\ ixOp = "none"
    /\ index' = IndexReset(variant, index, initial)
    /\ held' = Range(initial)
    /\ ixOp' = "reset"
    /\ UNCHANGED <<variant, ladderVars, visitVars, moduleVars, remoteLog, tableVars>>

Insert(model) ==
    /\ ~index.raised
    /\ model.id \notin HeldIds
    /\ index' = IndexInsert(variant, index, model)
    /\ held' = held \cup {model}
    /\ ixOp' = "insert"
    /\ UNCHANGED <<variant, ladderVars, visitVars, moduleVars, remoteLog, tableVars>>

InsertAllModels(models) ==
    /\ ~index.raised
    /\ \A m \in Range(models) : m.id \notin HeldIds
    /\ index' = IndexInsertAll(variant, index, models)
    /\ held' = held \cup Range(models)
    /\ ixOp' = "insert_all"
    /\ UNCHANGED <<variant, ladderVars, visitVars, moduleVars, remoteLog, tableVars>>

Update(old, new) ==
    /\ ~index.raised
    /\ old \in held
    /\ new.id = old.id
    /\ new # old
    /\ index' = IndexUpdate(variant, index, old, new)
    /\ held' = (held \ {old}) \cup {new}
    /\ ixOp' = "update"
    /\ UNCHANGED <<variant, ladderVars, visitVars, moduleVars, remoteLog, tableVars>>

UpdateAllModels(changes) ==
    /\ ~index.raised
    /\ SameId([i \in DOMAIN changes |-> changes[i][1]])
    /\ \A i \in DOMAIN changes :
          /\ changes[i][1] \in held
          /\ changes[i][2].id = changes[i][1].id
          /\ changes[i][2] # changes[i][1]
    /\ index' = IndexUpdateAll(variant, index, changes)
    /\ held' = (held \ {changes[i][1] : i \in DOMAIN changes})
                    \cup {changes[i][2] : i \in DOMAIN changes}
    /\ ixOp' = "update_all"
    /\ UNCHANGED <<variant, ladderVars, visitVars, moduleVars, remoteLog, tableVars>>

Delete(model) ==
    /\ ~index.raised
    /\ model \in held
    /\ index' = IndexDelete(variant, index, model)
    /\ held' = held \ {model}
    /\ ixOp' = "delete"
    /\ UNCHANGED <<variant, ladderVars, visitVars, moduleVars, remoteLog, tableVars>>

\* delete of a model that the index does not hold
DeleteAbsent(model) ==
    /\ ~index.raised
    /\ model.id \notin HeldIds
    /\ index' = IndexDelete(variant, index, model)
    /\ held' = held
    /\ ixOp' = "delete_absent"
    /\ UNCHANGED <<variant, ladderVars, visitVars, moduleVars, remoteLog, tableVars>>

DeleteAllModels(models) ==
    /\ ~index.raised
    /\ Range(models) \subseteq held
    /\ index' = IndexDeleteAll(variant, index, models)
    /\ held' = held \ Range(models)
    /\ ixOp' = "delete_all"
    /\ UNCHANGED <<variant, ladderVars, visitVars, moduleVars, remoteLog, tableVars>>

UpdateBucket(key, models) ==
    /\ ~index.raised
    /\ variant = "sorted"
    /\ LET kept == {m \in held : key \notin Range(m.keys)}
       IN  /\ \A m \in Range(models) : m.id \notin {k.id : k \in kept}
           /\ held' = kept \cup Range(models)
    /\ index' = SortedBucketIndexUpdateBucket(index, key, models)
    /\ ixOp' = "update_bucket"
    /\ UNCHANGED <<variant, ladderVars, visitVars, moduleVars, remoteLog, tableVars>>

InitIndex ==
    /\ variant \in Variants
    /\ index = EmptyIndex
    /\ held = {}
    /\ ixOp = "none"
    /\ remoteLog = <<>>
    /\ LadderIdle
    /\ VisitsIdle
    /\ LockIdle
    /\ RefreshIdle
    /\ ModulesIdle

NextIndex ==
    \/ \E initial \in {<<>>} \cup BatchesOf[variant] : Reset(initial)
    \/ \E model \in ModelsOf[variant] : Insert(model)
    \/ \E models \in BatchesOf[variant] : InsertAllModels(models)
    \/ \E old \in held : \E new \in OtherVersions[variant][old] : Update(old, new)
    \/ \E a \in held : \E b \in held \ {a} :
          \E c \in OtherVersions[variant][a], d \in OtherVersions[variant][b] :
             UpdateAllModels(<<<<a, c>>, <<b, d>>>>)
    \/ \E a \in held : \E c \in OtherVersions[variant][a] : UpdateAllModels(<<<<a, c>>>>)
    \/ \E model \in held : Delete(model)
    \/ \E model \in ModelsOf[variant] : DeleteAbsent(model)
    \/ \E models \in Batches(held) : DeleteAllModels(models)
    \/ \E key \in {"x"}, models \in {<<>>} \cup {<<m>> : m \in ModelsOf["sorted"]} :
          UpdateBucket(key, models)

SpecIndex == InitIndex /\ [][NextIndex]_vars

\* ------------------------------------------------------------------------
\* Claims about the index variants
\* ------------------------------------------------------------------------
\* The keys an insert files a model under: the predicates up to the first
\* that returns None, and for the prefix search every name that is not empty
RECURSIVE KeysUntilNone(_, _)
KeysUntilNone(keys, i) ==
    IF i > Len(keys) \/ keys[i] = NoKey THEN {}
    ELSE {keys[i]} \cup KeysUntilNone(keys, i + 1)

FiledUnder(v, model) ==
    IF v = "prefix" THEN {k \in Range(model.keys) : k # Blank}
    ELSE KeysUntilNone(model.keys, 1)

\* After update(old, new) has returned, no get hands out old and a get of
\* each key of new hands out new
UpdateReplaces(v, st, old, new) ==
    /\ \A q \in QueryKeys(v) : old \notin Returned(v, st, q)
    /\ \A k \in FiledUnder(v, new) : new \in Returned(v, st, k)

UpdateReplacesIn(V) ==
    \A old \in held : \A new \in OtherVersions[variant][old] :
        (variant \in V /\ Update(old, new) /\ ~index'.raised)
            => UpdateReplaces(variant, index', old, new)

\* C11: after Index.update(old, new) returns, old is no longer returned by
\* any get on the index and new is returned under its key, in each of the
\* four index variants.
C11_UpdateReplacesOld == [][UpdateReplacesIn(Variants)]_vars

\* The same for the variants other than the prefix search, which holds
UpdateReplacesOldElsewhere == [][UpdateReplacesIn(Variants \ {"prefix"})]_vars

\* The records of a bucket, and whether a bucket holds nothing but model
Members(v, bucket) == IF v = "sorted" THEN Range(bucket) ELSE bucket

OnlyHolds(v, bucket, model) ==
    /\ Members(v, bucket) # {}
    /\ \A r \in Members(v, bucket) : IF v = "sorted" THEN r = model ELSE r.id = model.id

NoEmptyBucket(v, st) == \A K \in DOMAIN st.data : Members(v, st.data[K]) # {}

\* A delete that returns takes the key of a bucket that held the deleted
\* model alone out of raw(), and get of that key finds nothing
LastDeleted ==
    \A model \in held : \A K \in FiledUnder(variant, model) :
        ( /\ Delete(model)
          /\ ~index'.raised
          /\ K \in DOMAIN index.data
          /\ OnlyHolds(variant, index.data[K], model) )
            => /\ K \notin DOMAIN index'.data
               /\ Returned(variant, index', K) = {}

BucketsStayClean ==
    variant \in {"bucket", "sorted"} => (LastDeleted /\ NoEmptyBucket(variant, index'))

DeleteCleansUp == variant \in {"bucket", "sorted"} => LastDeleted

\* C12: in a Bucket or Sorted-bucket index, after the last record of bucket
\* key K is deleted, get(K) returns an empty result and K is not a key of
\* raw(); in every reachable state no bucket key maps to an empty collection.
C12_NoEmptyBucket == [][BucketsStayClean]_vars

\* The part of C12 about delete alone, which holds
C12_DeleteCleansUp == [][DeleteCleansUp]_vars

\* The keys inserted for the records the index holds
InsertedKeys == UNION {FiledUnder("prefix", m) : m \in held}

HasKeyStarting(m, q) == \E k \in FiledUnder("prefix", m) : StartsWith(k, q)

HasKeyContaining(m, q) == \E k \in FiledUnder("prefix", m) : Contains(k, q)

\* C13: in the Prefix-search index, get(q) for a query q that is itself an
\* inserted key returns every record that has a key starting with q, and for
\* a query that is not an inserted key it returns exactly the records having
\* a key that contains q.
C13_PrefixGet ==
    (variant = "prefix" /\ ~index.raised) =>
        \A q \in Queries :
            IF q \in InsertedKeys
            THEN {m \in held : HasKeyStarting(m, q)} \subseteq Returned("prefix", index, q)
            ELSE Returned("prefix", index, q) = {m \in held : HasKeyContaining(m, q)}

\* The example of C13: records keyed "Alex", "Alexandru" and "Alexandra" put
\* into an empty index; "Alex" finds all three, "Alexan" the latter two
AlexExample ==
    LET a  == [id |-> "u1", ver |-> 1, keys |-> <<Alex>>]
        b  == [id |-> "u2", ver |-> 1, keys |-> <<Alexandru>>]
        c  == [id |-> "u3", ver |-> 1, keys |-> <<Alexandra>>]
        st == IndexInsert("prefix", IndexReset("prefix", EmptyIndex, <<a, b>>), c)
    IN  /\ Returned("prefix", st, Alex) = {a, b, c}
        /\ Returned("prefix", st, Alexan) = {b, c}

ProperPrefix(short, long) == short # long /\ StartsWith(long, short)

AfterPrefixCall == variant = "prefix" /\ ixOp # "none" /\ ~index.raised

Orderings(S) == {L \in [1..Cardinality(S) -> S] : Range(L) = S}

\* Two contents of an index answer every get alike (the order of a sorted
\* bucket among records of equal sort key is not compared)
SameContent(v, a, b) == \A q \in QueryKeys(v) : Returned(v, a, q) = Returned(v, b, q)

\* The content is what reset gives for the records S, in some order
LikeReset(v, st, S) ==
    \E L \in Orderings(S) : SameContent(v, st, IndexReset(v, st, L))

Incremental(op) == op \in {"insert", "insert_all", "update", "update_all", "delete", "delete_all"}

\* An insert, update or delete that returns, made on a content that reset
\* gives for the records held, leaves a content that reset gives for the
\* records held afterwards
HistoryFreeIn(V) ==
    ( /\ variant \in V
      /\ ixOp' # ixOp \/ index' # index
      /\ Incremental(ixOp')
      /\ ~index'.raised
      /\ LikeReset(variant, index, held) )
        => LikeReset(variant, index', held')

HistoryFree == HistoryFreeIn(Variants)

HistoryFreeButPrefix == HistoryFreeIn(Variants \ {"prefix"})

\* C24: for every index variant, the content reached by any sequence of
\* incremental insert / update / delete operations equals the content
\* produced by reset() with the final record set: index content is a
\* function of the record set and the key functions only, not of the history
\* of operations.
C24_ContentIsHistoryFree == [][HistoryFree]_vars

\* The same for the variants other than the prefix search, which holds
ContentIsHistoryFreeElsewhere == [][HistoryFreeButPrefix]_vars

\* C25: in a Sorted-bucket index, in every reachable state each bucket's list
\* is ordered non-decreasingly by the caller-supplied sort key and contains
\* no duplicate record, after any sequence of insert, insert_all, update,
\* delete, update_bucket and reset.
C25_BucketsSorted ==
    variant = "sorted" =>
        \A key \in DOMAIN index.data :
            \A i, j \in DOMAIN index.data[key] :
                i < j => /\ index.data[key][i].ver <= index.data[key][j].ver
                         /\ index.data[key][i] # index.data[key][j]

\* C25 witness: a bucket of two records of different sort keys and one of
\* two records of the same sort key
C25_Witness ==
    /\ variant = "sorted"
    /\ ~index.raised
    /\ \E key \in DOMAIN index.data :
          /\ Len(index.data[key]) = 2
          /\ index.data[key][1].ver < index.data[key][2].ver
    /\ \E key \in DOMAIN index.data :
          /\ Len(index.data[key]) = 2
          /\ index.data[key][1].ver = index.data[key][2].ver

\* C26: a refresh replaces the content of all indexes of a Table as one
\* atomic step relative to readers, and after the refresh each index holds
\* exactly the records parsed from the new snapshot (invalid rows excluded)
\* that have a key for it.  Here: after reset(initial) every record of
\* initial is returned under each of its keys, and in the variants with
\* exact keys nothing else is.
C26_ResetHoldsSnapshot ==
    (ixOp = "reset" /\ ~index.raised) =>
        /\ \A m \in held : \A k \in FiledUnder(variant, m) :
              m \in Returned(variant, index, k)
        /\ variant # "prefix" =>
              \A q \in QueryKeys(variant) :
                  Returned(variant, index, q) \subseteq {m \in held : q \in FiledUnder(variant, m)}

\* The same for the variants other than the prefix search, which holds
ResetHoldsSnapshotElsewhere == variant # "prefix" => C26_ResetHoldsSnapshot

\* The records that get(q) of the prefix search returns, by identity
IdsReturned(ix, q) == {m.id : m \in Returned("prefix", ix, q)}

\* A delete of the prefix search that returns leaves no query that returns
\* the deleted record
DeletedIsGone ==
    \A model \in held :
        (variant = "prefix" /\ Delete(model) /\ ~index'.raised) =>
            \A q \in Queries : model.id \notin IdsReturned(index', q)

\* and every query returns the records it returned that were not deleted
DeleteKeepsOthers ==
    \A model \in held :
        (variant = "prefix" /\ Delete(model) /\ ~index'.raised) =>
            \A q \in Queries :
                IdsReturned(index, q) \ {model.id} \subseteq IdsReturned(index', q)

\* C36: in the Prefix-search index, after delete(R) (or update(R, R') that
\* removes a key of R) returns, no query returns R any more, including
\* queries for a shorter key that had absorbed one of R's longer keys; the
\* stored per-key sets of records that were not deleted are unchanged.
C36_DeletedIsGone == [][DeletedIsGone]_vars

PrefixDeleteKeepsOthers == [][DeleteKeepsOthers]_vars

\* The records of a list that share the key k with another record of it
Sharing(models, k) ==
    {m \in Range(models) :
        /\ k \in FiledUnder("prefix", m)
        /\ \E n \in Range(models) : n.id # m.id /\ k \in FiledUnder("prefix", n)}

\* After insert_all or reset of a list, every key shared by records of the
\* list returns all of them; old = TRUE looks only at the keys that insert_all
\* finds in the index already
SharedKeysReturned(old) ==
    \A models \in BatchesOf["prefix"] :
        ( /\ variant = "prefix"
          /\ InsertAllModels(models) \/ Reset(models)
          /\ ~index'.raised )
            => \A k \in Queries :
                  (old => (OdHas(index.data, k) /\ InsertAllModels(models)))
                      => {m.id : m \in Sharing(models, k)} \subseteq IdsReturned(index', k)

\* C37: in the Prefix-search index, after insert_all or reset with a list in
\* which two or more distinct records share the same search key k, get(k)
\* returns all of those records, also when k was not a key of the index
\* before the call.
C37_SharedKeyReturnsAll == [][SharedKeysReturned(FALSE)]_vars

SharedOldKeyReturnsAll == [][SharedKeysReturned(TRUE)]_vars

\* Whether key is one that raw() holds
KeyPresent(v, st, key) == IF v = "prefix" THEN OdHas(st.data, key) ELSE key \in DOMAIN st.data

\* A delete of a model that the index does not hold returns, and every get
\* returns what it returned before; a get of a key that raw() does not hold
\* finds nothing (the prefix search falls back on its substring scan)
AbsentDeleteIsSilent ==
    \A model \in ModelsOf[variant] :
        DeleteAbsent(model) =>
            /\ ~index'.raised
            /\ \A q \in QueryKeys(variant) :
                  Returned(variant, index, q) \subseteq Returned(variant, index', q)
            /\ \A q \in QueryKeys(variant) :
                  (variant # "prefix" /\ ~KeyPresent(variant, index, q))
                      => ~IndexGetInner(variant, index, q).found

\* C22: at the Index layer absence is never an error: for every index
\* variant, get(key) of an absent key returns an empty result, and
\* delete(model) where the model's key, or the model itself under that key,
\* is not present completes without raising and without removing any other
\* record.
C22_AbsenceIsSilent == [][AbsentDeleteIsSilent]_vars

\* ------------------------------------------------------------------------
\* The lock of a table (contracts/tables/*.py, contracts/index.py)
\*
\* The indexes of a table are built with the table's lock as shared_lock:
\* their reads take its read side, their mutators take no lock of their own
\* and rely on the write side taken by the table.  A call is a script of
\* steps; threads[t].now is the step the thread has just taken, so a thread
\* with now = "remote" is inside a remote call and one with now = "rlock" is
\* inside a read.
\* ------------------------------------------------------------------------
\* Index.get, Index.get_all, Index.raw
GetScript == <<"rlock", "runlock">>

\* insert_all taking the write lock only after it has touched the indexes
InsertAllScript_LockAfter(models) == <<"remote", "add_to_indexes", "wlock", "wunlock">>

\* InsertableTable.insert_all: _insert_rows returns at once for no rows
InsertAllScript(models) ==
    <<"wlock">> \o (IF models = "none" THEN <<>> ELSE <<"remote">>) \o <<"add_to_indexes", "wunlock">>

\* UpdatableTable.update_all: nothing for no models, no index update and no
\* remote call when no model differs from the stored one
UpdateAllScript(models) ==
    CASE models = "none"    -> <<>>
      [] models = "same"    -> <<"wlock", "wunlock">>
      [] models = "changed" -> <<"wlock", "update_indexes", "remote", "wunlock">>

\* PingPongStandingsTable._sort
SortScript == <<"wlock", "remote", "wunlock">>

\* TasksTable.save: _remote_toggle returns at once for no changed cell
SaveScript(cells) ==
    <<"wlock", "update_indexes">> \o (IF cells = "none" THEN <<>> ELSE <<"remote">>) \o <<"wunlock">>

\* Database.refresh: load, then _reset_indexes of the table
RefreshScript == <<"remote", "wlock", "reset_indexes", "wunlock">>

\* PingPongStandingsTable.save_all (sorts) and VisitsTable.save_all
SaveAllScript(parts, sorts) ==
    GetScript
        \o UpdateAllScript(IF "update" \in parts THEN "changed" ELSE "none")
        \o InsertAllScript(IF "insert" \in parts THEN "some" ELSE "none")
        \o (IF sorts THEN SortScript ELSE <<>>)

Mutators == {"add_to_indexes", "update_indexes", "reset_indexes"}

Mutating(t) == threads[t].now \in Mutators

Reading(t) == threads[t].now = "rlock"

InRemoteCall(t) == threads[t].now = "remote"

\* RWLockWrite: gen_rlock is granted while no writer is inside, gen_wlock
\* while nobody is inside
CanRead == lock.writer = "free"

CanWrite == lock.writer = "free" /\ lock.readers = {}

\* A thread enters a call
Begin(t, op, script, parts) ==
    /\ threads[t].now = "idle"
    /\ script # <<>>
    /\ threads' = [threads EXCEPT ![t] =
            [op |-> op, now |-> "called", script |-> script, parts |-> parts, applied |-> {}]]
    /\ UNCHANGED <<lock, indexVars, ladderVars, visitVars, moduleVars, remoteLog, refreshVars>>

CallGet(t) == Begin(t, "get", GetScript, {})

CallInsertAll(t) == Begin(t, "insert_all", InsertAllScript("some"), {"insert"})

CallUpdateAll(t, models) ==
    Begin(t, "update_all", UpdateAllScript(models), IF models = "changed" THEN {"update"} ELSE {})

CallSave(t, cells) == Begin(t, "save", SaveScript(cells), {"update"})

CallRefresh(t) == Begin(t, "refresh", RefreshScript, {})

CallSaveAll(t, parts, sorts) == Begin(t, "save_all", SaveAllScript(parts, sorts), parts)

\* What a thread is after the step at the head of its script: a call whose
\* script is finished has returned
Stepped(th, applied) ==
    IF Len(th.script) = 1 THEN Resting
    ELSE [th EXCEPT !.now = Head(th.script), !.script = Tail(th.script), !.applied = applied]

NextStep(t) == IF threads[t].script = <<>> THEN "none" ELSE Head(threads[t].script)

AcquireRead(t) ==
    /\ NextStep(t) = "rlock"
    /\ CanRead
    /\ lock' = [lock EXCEPT !.readers = @ \cup {t}]
    /\ threads' = [threads EXCEPT ![t] = Stepped(@, @.applied)]
    /\ UNCHANGED <<indexVars, ladderVars, visitVars, moduleVars, remoteLog, refreshVars>>

ReleaseRead(t) ==
    /\ NextStep(t) = "runlock"
    /\ lock' = [lock EXCEPT !.readers = @ \ {t}]
    /\ threads' = [threads EXCEPT ![t] = Stepped(@, @.applied)]
    /\ UNCHANGED <<indexVars, ladderVars, visitVars, moduleVars, remoteLog, refreshVars>>

AcquireWrite(t) ==
    /\ NextStep(t) = "wlock"
    /\ CanWrite
    /\ lock' = [lock EXCEPT !.writer = t]
    /\ threads' = [threads EXCEPT ![t] = Stepped(@, @.applied)]
    /\ UNCHANGED <<indexVars, ladderVars, visitVars, moduleVars, remoteLog, refreshVars>>

ReleaseWrite(t) ==
    /\ NextStep(t) = "wunlock"
    /\ lock' = [lock EXCEPT !.writer = IF @ = t THEN "free" ELSE @]
    /\ threads' = [threads EXCEPT ![t] = Stepped(@, @.applied)]
    /\ UNCHANGED <<indexVars, ladderVars, visitVars, moduleVars, remoteLog, refreshVars>>

\* _insert_rows, _update_rows, _remote_toggle, Database.load, worksheet.sort
RemoteCall(t) ==
    /\ NextStep(t) = "remote"
    /\ threads' = [threads EXCEPT ![t] = Stepped(@, @.applied)]
    /\ UNCHANGED <<lock, indexVars, ladderVars, visitVars, moduleVars, remoteLog, refreshVars>>

\* _add_to_indexes, _update_indexes, _reset_indexes: every index of the table
MutateIndexes(t) ==
    /\ NextStep(t) \in Mutators
    /\ LET part == CASE NextStep(t) = "update_indexes" -> {"update"}
                     [] NextStep(t) = "add_to_indexes" -> {"insert"}
                     [] OTHER -> {}
       IN  threads' = [threads EXCEPT ![t] = Stepped(@, @.applied \cup (part \cap @.parts))]
    /\ UNCHANGED <<lock, indexVars, ladderVars, visitVars, moduleVars, remoteLog, refreshVars>>

InitLock ==
    /\ LockIdle
    /\ RefreshIdle
    /\ ModulesIdle
    /\ IndexIdle
    /\ LadderIdle
    /\ VisitsIdle
    /\ remoteLog = <<>>

NextLock ==
    \E t \in Threads :
        \/ CallGet(t)
        \/ CallInsertAll(t)
        \/ \E models \in {"same", "changed"} : CallUpdateAll(t, models)
        \/ \E cells \in {"none", "some"} : CallSave(t, cells)
        \/ CallRefresh(t)
        \/ \E parts \in SUBSET {"update", "insert"}, sorts \in BOOLEAN : CallSaveAll(t, parts, sorts)
        \/ AcquireRead(t)
        \/ ReleaseRead(t)
        \/ AcquireWrite(t)
        \/ ReleaseWrite(t)
        \/ RemoteCall(t)
        \/ MutateIndexes(t)

SpecLock == InitLock /\ [][NextLock]_vars

\* ------------------------------------------------------------------------
\* Claims about the lock of a table
\* ------------------------------------------------------------------------
\* C15: whenever an index of a table is being mutated (by the reset of a
\* refresh, insert_all, update_all or TasksTable.save), the mutating thread
\* holds the table's write lock, no other thread is mutating and no thread is
\* inside a read of an index of the table; readers share the lock.
C15_MutualExclusion ==
    /\ \A t \in Threads :
          Mutating(t) =>
              /\ lock.writer = t
              /\ lock.readers = {}
              /\ \A u \in Threads \ {t} : ~Mutating(u) /\ ~Reading(u)
    /\ \A t \in Threads : Reading(t) => t \in lock.readers /\ lock.writer = "free"

\* A thread mutates the indexes while a reader and another writer wait
C15_Witness ==
    \E t, u, w \in Threads :
        /\ Mutating(t)
        /\ NextStep(u) = "rlock"
        /\ NextStep(w) = "wlock"

\* Two threads inside reads at the same time
ReadersShare == \E t, u \in Threads : t # u /\ Reading(t) /\ Reading(u)

\* A save_all batch of which a part is in the indexes and a part is not
Partial(w) ==
    /\ threads[w].op = "save_all"
    /\ threads[w].applied # {}
    /\ threads[w].applied # threads[w].parts

\* C16: a batch written through save_all is never partially visible: a
\* reader of the table sees either none or all of its records applied.
C16_BatchIsAtomic == \A t, w \in Threads : Reading(t) => ~Partial(w)

\* C17: no remote call (load, append, patch, sort) is in progress while the
\* table's write lock is held.
C17_NoRemoteUnderWriteLock == \A t \in Threads : InRemoteCall(t) => lock.writer # t

\* ------------------------------------------------------------------------
\* Refresh and remote writes (contracts/database.py, contracts/tables/*.py)
\*
\* A database holds a Subject; each table subscribes to it through
\* map(_load_worksheet), map(_load_values), distinct_until_changed(),
\* map(_parse) with on_next = _reset_indexes and on_error = logger.exception.
\* A record is <<key, value>>; the raw values of a worksheet are its rows
\* under the header, or no row at all, or the worksheet is missing.
\* ------------------------------------------------------------------------
Records == {<<"k1", 1>>, <<"k1", 2>>}

\* What a worksheet can hold: table A up to two rows, table B at most one
RowLists(t) ==
    IF t = "A" THEN UNION {[1..n -> Records] : n \in {0, 1, 2}}
    ELSE {<<>>, <<(<<"k1", 1>>)>>}

RawValues(t) ==
    {MissingRaw} \cup (IF t = "A" THEN {BlankRaw} ELSE {})
        \cup {[kind |-> "rows", rows |-> rows] : rows \in RowLists(t)}

RawOf == [t \in Tables |-> RawValues(t)]

KeysOf(S) == {r[1] : r \in S}

\* ColRowTable._parse followed by the reset of a unique index: of the rows
\* with one key the last is kept
Parse(rows) ==
    {rows[i] : i \in {j \in DOMAIN rows : \A l \in DOMAIN rows : l > j => rows[l][1] # rows[j][1]}}

\* What the pipe of one table does with a loaded spreadsheet: st is
\* [mem, alive, last, logged] of the table
Received(st, raw) ==
    CASE ~st.alive          -> [st EXCEPT !.logged = 0]
      [] raw.kind = "missing" -> [st EXCEPT !.alive = FALSE, !.logged = 1]
      [] raw = st.last      -> [st EXCEPT !.logged = 0]
      [] raw.kind = "blank" -> [st EXCEPT !.alive = FALSE, !.last = raw, !.logged = 1]
      [] OTHER              -> [st EXCEPT !.mem = Parse(raw.rows), !.last = raw, !.logged = 0]

TableState(m, p, t) == [mem |-> m[t], alive |-> p.alive[t], last |-> p.last[t], logged |-> 0]

\* Database.refresh on [mem, pipe]: a stopped Subject ignores on_next and
\* on_error; on_error stops it and is logged by each subscribed table
Refreshed(m, p, sh, loadOk) ==
    LET got == [t \in Tables |-> Received(TableState(m, p, t), sh[t])]
        subscribed == {t \in Tables : p.alive[t]}
    IN  CASE p.stopped ->
               [mem |-> m, pipe |-> p,
                rf |-> [Quiet EXCEPT !.name = "refresh", !.loadRaised = ~loadOk]]
          [] ~loadOk ->
               [mem |-> m,
                pipe |-> [p EXCEPT !.stopped = TRUE, !.alive = [t \in Tables |-> FALSE]],
                rf |-> [Quiet EXCEPT !.name = "refresh", !.loadRaised = TRUE,
                                     !.logged = Cardinality(subscribed)]]
          [] OTHER ->
               [mem |-> [t \in Tables |-> got[t].mem],
                pipe |-> [p EXCEPT !.alive = [t \in Tables |-> got[t].alive],
                                   !.last = [t \in Tables |-> got[t].last]],
                rf |-> [Quiet EXCEPT !.name = "refresh",
                                     !.failed = {t \in Tables : got[t].logged > 0},
                                     !.logged = Cardinality({t \in Tables : got[t].logged > 0})]]

\* index.insert_all / index.update_all of the key index: the record takes
\* the place of the one with its key
Written(records, model) == {r \in records : r[1] # model[1]} \cup {model}

\* insert_all giving up the models that the remote store did not take
TableInsertAll_RollsBack(records, model, ok) == IF ok THEN Written(records, model) ELSE records

\* InsertableTable.insert_all: the indexes take the models whether or not
\* _insert_rows has written them
TableInsertAll(records, model, ok) == Written(records, model)

\* UpdatableTable.update_all: only a stored model that differs is replaced
Changes(records, model) == model[1] \in KeysOf(records) /\ model \notin records

TableUpdateAll(records, model, ok) ==
    IF Changes(records, model) THEN Written(records, model) ELSE records

\* worksheet.append_rows
Appended(raw, model) == [raw EXCEPT !.rows = Append(@, model)]

\* worksheet.update_cells on the row that existing_row_number_by_key holds
\* for the key (the last one); a key with no row is passed over
Patched(raw, model) ==
    LET at == {i \in DOMAIN raw.rows :
                  /\ raw.rows[i][1] = model[1]
                  /\ \A l \in DOMAIN raw.rows : l > i => raw.rows[l][1] # model[1]}
    IN  [raw EXCEPT !.rows = [i \in DOMAIN raw.rows |-> IF i \in at THEN model ELSE raw.rows[i]]]

\* The remote write goes through when the network does and the worksheet has
\* its header; every exception is caught and logged in _insert_rows and
\* _update_rows
RemoteOk(raw, netOk) == netOk /\ raw.kind = "rows"

Refresh(loadOk) ==
    /\ LET out == Refreshed(mem, pipe, sheets, loadOk)
       IN  /\ mem' = out.mem
           /\ pipe' = out.pipe
           /\ rf' = out.rf
    /\ UNCHANGED <<sheets, lockVars, indexVars, ladderVars, visitVars, moduleVars, remoteLog>>

TableInsert(t, model, netOk) ==
    /\ LET ok == RemoteOk(sheets[t], netOk)
       IN  /\ ok => Appended(sheets[t], model) \in RawOf[t]
           /\ sheets' = IF ok THEN [sheets EXCEPT ![t] = Appended(@, model)] ELSE sheets
           /\ mem' = [mem EXCEPT ![t] = TableInsertAll(@, model, ok)]
           /\ rf' = [Quiet EXCEPT !.name = "insert_all", !.table = t, !.ok = ok,
                                  !.wrote = {model}, !.logged = IF ok THEN 0 ELSE 1]
    /\ UNCHANGED <<pipe, lockVars, indexVars, ladderVars, visitVars, moduleVars, remoteLog>>

TableUpdate(t, model, netOk) ==
    /\ LET changes == Changes(mem[t], model)
           ok == ~changes \/ RemoteOk(sheets[t], netOk)
       IN  /\ sheets' = IF changes /\ ok THEN [sheets EXCEPT ![t] = Patched(@, model)] ELSE sheets
           /\ mem' = [mem EXCEPT ![t] = TableUpdateAll(@, model, ok)]
           /\ rf' = [Quiet EXCEPT !.name = "update_all", !.table = t, !.ok = ok,
                                  !.wrote = IF changes THEN {model} ELSE {},
                                  !.logged = IF ok THEN 0 ELSE 1]
    /\ UNCHANGED <<pipe, lockVars, indexVars, ladderVars, visitVars, moduleVars, remoteLog>>

\* Somebody edits the spreadsheet
EditSheet(t, raw) ==
    /\ raw # sheets[t]
    /\ sheets' = [sheets EXCEPT ![t] = raw]
    /\ UNCHANGED <<mem, pipe, rf, lockVars, indexVars, ladderVars, visitVars, moduleVars, remoteLog>>

\* The databases refresh once when they are built
InitRefresh ==
    /\ sheets \in [Tables -> UNION {RawOf[t] : t \in Tables}]
    /\ \A t \in Tables : sheets[t] \in RawOf[t]
    /\ \E loadOk \in BOOLEAN :
          LET out == Refreshed([t \in Tables |-> {}], Unloaded, sheets, loadOk)
          IN  /\ mem = out.mem
              /\ pipe = out.pipe
              /\ rf = out.rf
    /\ LockIdle
    /\ IndexIdle
    /\ LadderIdle
    /\ VisitsIdle
    /\ ModulesIdle
    /\ remoteLog = <<>>

NextRefresh ==
    \/ \E loadOk \in BOOLEAN : Refresh(loadOk)
    \/ \E model \in Records, netOk \in BOOLEAN : TableInsert("A", model, netOk)
    \/ \E model \in Records, netOk \in BOOLEAN : TableUpdate("A", model, netOk)
    \/ \E t \in Tables : \E raw \in RawOf[t] : EditSheet(t, raw)

SpecRefresh == InitRefresh /\ [][NextRefresh]_vars

\* ------------------------------------------------------------------------
\* Claims about refresh and remote writes
\* ------------------------------------------------------------------------
\* update_all of a model whose key the table does not hold
AbsentUpdate(t, model, netOk) == TableUpdate(t, model, netOk) /\ model[1] \notin KeysOf(mem[t])

AbsentUpdateRaises ==
    \A model \in Records, netOk \in BOOLEAN :
        AbsentUpdate("A", model, netOk) => (rf'.raised /\ mem' = mem /\ sheets' = sheets)

\* The half that the code keeps: nothing is written anywhere
AbsentUpdateWritesNothing ==
    \A model \in Records, netOk \in BOOLEAN :
        AbsentUpdate("A", model, netOk) => (rf'.wrote = {} /\ mem' = mem /\ sheets' = sheets)

\* C21: updating, through a Table's update / update_all, a record whose key
\* is absent from the Table's unique key index results in a domain error
\* surfaced to the caller, and leaves the indexes and the remote store
\* unchanged.
C21_AbsentUpdateIsAnError == [][AbsentUpdateRaises]_vars

AbsentUpdateIsSkipped == [][AbsentUpdateWritesNothing]_vars

RefreshFailed(r) == r.name = "refresh" /\ (r.loadRaised \/ r.failed # {})

FailedRefreshKeepsAll ==
    RefreshFailed(rf') => (mem' = mem /\ rf'.logged > 0 /\ ~rf'.raised)

\* C18: a refresh that fails (the load raises, the worksheet is missing, or
\* parsing raises) leaves every index of every table exactly as it was
\* before the refresh, and the failure is logged rather than raised to the
\* caller of refresh().
C18_FailedRefreshKeepsAll == [][FailedRefreshKeepsAll]_vars

\* The part of C18 about the records alone
FailedRefreshKeepsRecords == [][RefreshFailed(rf') => mem' = mem]_vars

\* The table whose own worksheet or parse failed keeps its records
FailedTableKeepsRecords ==
    [][\A t \in Tables : (rf'.name = "refresh" /\ (rf'.loadRaised \/ t \in rf'.failed))
                            => mem'[t] = mem[t]]_vars

FailedWrite(r) == r.name \in {"insert_all", "update_all"} /\ ~r.ok

NothingRolledBack ==
    FailedWrite(rf') =>
        /\ rf'.wrote \subseteq mem'[rf'.table]
        /\ \A r \in mem[rf'.table] : r[1] \notin KeysOf(rf'.wrote) => r \in mem'[rf'.table]
        /\ \A t \in Tables \ {rf'.table} : mem'[t] = mem[t]
        /\ ~rf'.raised

\* C19: when the remote write of a local insert or update fails, the
\* in-memory indexes still contain the written records after the operation
\* returns: an inserted record is retrievable, an updated record shows its
\* new value, and nothing is rolled back.
C19_MemoryKeepsFailedWrite == [][NothingRolledBack]_vars

\* A record whose remote write failed is in memory and not in the sheet
C19_Witness ==
    /\ FailedWrite(rf)
    /\ rf.wrote # {}
    /\ rf.wrote \subseteq mem[rf.table]
    /\ \A r \in rf.wrote : r \notin Parse(sheets[rf.table].rows)

\* The refresh after a failed write of table t: the load succeeds, no table
\* fails, and the table is still subscribed to a Subject that is not stopped
Reconciles ==
    \A t \in Tables :
        ( /\ FailedWrite(rf)
          /\ rf.table = t
          /\ ~pipe.stopped
          /\ pipe.alive[t]
          /\ rf'.name = "refresh"
          /\ ~rf'.loadRaised
          /\ rf'.failed = {} )
            => mem'[t] = Parse(sheets[t].rows)

\* C20: after a remote write has failed (memory ahead of the remote store),
\* the next successful refresh reconciles the table: once it completes, the
\* in-memory record set equals the parse of the remote snapshot it loaded.
C20_RefreshReconciles == [][Reconciles]_vars

\* The refresh after a failed one: it loads, and the worksheet of table t
\* holds rows other than the ones the table saw last
LoadsChanged(t) ==
    /\ RefreshFailed(rf)
    /\ Refresh(TRUE)
    /\ sheets[t].kind = "rows"
    /\ sheets[t] # pipe.last[t]

RefreshAfterFailure ==
    \A t \in Tables : LoadsChanged(t) => mem'[t] = Parse(sheets[t].rows)

\* C35: a failed refresh does not stop later refreshes: after a refresh
\* fails (load error, missing worksheet or parse error), the next refresh
\* that loads a valid, changed snapshot resets the indexes of every Table of
\* that Database to the new snapshot.
C35_RefreshAfterFailure == [][RefreshAfterFailure]_vars

\* A table that did not fail itself, after the worksheet or the parse of
\* another table failed, is reset by the next refresh
OtherTableRefreshes ==
    [][\A t \in Tables :
          (LoadsChanged(t) /\ ~rf.loadRaised /\ t \notin rf.failed /\ pipe.alive[t])
              => mem'[t] = Parse(sheets[t].rows)]_vars

\* ------------------------------------------------------------------------
\* Nominations (integrations/google/sheets/tables/nominations.py,
\* modules/nominate.py)
\* ------------------------------------------------------------------------
\* NominateModule._get_mondays: midnight of the Monday of the current week
ThisMonday(now) == now - (now % DaysPerWeek)

\* NominationsTable.has_voted: the bucket is kept in ascending date order by
\* the SortedBucketIndex, nominations[0] is its first element
HasVoted(data, user, since) ==
    IF data[user] = <<>> THEN FALSE ELSE data[user][1].date >= since

\* NominateModule._validate_time_rules; visited is what
\* has_visited_since(voter, last_monday) answers
ValidateTimeRules(data, voter, now, visited) ==
    visited /\ ~HasVoted(data, voter, ThisMonday(now))

\* NominateModule._confirm
Confirm(voter, nominee, visited) ==
    /\ LET model == [nominee |-> nominee, date |-> today, voted_by |-> voter]
           taken == ValidateTimeRules(nominations, voter, today, visited)
       IN  /\ nominations' =
                 IF taken /\ ~InList(nominations[voter], model)
                 THEN [nominations EXCEPT ![voter] = InsortLeft(@, model)]
                 ELSE nominations
           /\ vote' = [voter |-> voter, taken |-> taken]
    /\ today' = today
    /\ UNCHANGED <<taskVars, usersVars, overlapVars, ladderVars, visitVars, remoteLog, storeVars>>

\* A day goes by
Pass ==
    /\ today < MaxDays
    /\ today' = today + 1
    /\ UNCHANGED <<nominations, vote, taskVars, usersVars, overlapVars, ladderVars, visitVars, remoteLog, storeVars>>

InitNominate ==
    /\ ModulesIdle
    /\ LadderIdle
    /\ VisitsIdle
    /\ IndexIdle
    /\ LockIdle
    /\ RefreshIdle
    /\ remoteLog = <<>>

NextNominate ==
    \/ \E voter \in Voters, nominee \in Nominees, visited \in BOOLEAN :
          Confirm(voter, nominee, visited)
    \/ Pass

SpecNominate == InitNominate /\ [][NextNominate]_vars

\* ------------------------------------------------------------------------
\* Claims about nominations
\* ------------------------------------------------------------------------
Week(day) == day \div DaysPerWeek

\* C40: NominationsTable.has_voted(user, since) returns true exactly when the
\* user has at least one stored nomination dated at or after since, so that
\* across any sequence of confirmed nominations a voter records at most one
\* nomination per week.
C40_OneVotePerWeek ==
    \A v \in Voters :
        /\ \A since \in 0..MaxDays :
              HasVoted(nominations, v, since) <=>
                  \E i \in DOMAIN nominations[v] : nominations[v][i].date >= since
        /\ \A i, j \in DOMAIN nominations[v] :
              i # j => Week(nominations[v][i].date) # Week(nominations[v][j].date)

\* What holds instead: has_voted answers for the oldest nomination of the
\* voter, so the first week a voter nominates in has one nomination
FirstWeekHasOneVote ==
    \A v \in Voters : \A i, j \in DOMAIN nominations[v] :
        (i # j /\ Week(nominations[v][i].date) = Week(nominations[v][j].date))
            => Week(nominations[v][i].date) # Week(nominations[v][1].date)

\* ------------------------------------------------------------------------
\* Task lists (modules/tasks.py, integrations/google/sheets/tables/tasks.py)
\*
\* A handler runs on the event loop: what it does between two awaits is one
\* step.  _toggle reads the stored list and toggles its copy, awaits the
\* answer and the edit of the message, then saves the copy.
\* ------------------------------------------------------------------------
\* TasksTable.toggle
Toggle(task_list, position) == [task_list EXCEPT ![position] = ~@]

\* The cells TasksTable.save writes: the tasks whose is_done is not the one
\* of the stored list
ChangedCells(existing_list, task_list) ==
    {p \in Positions : task_list[p] # existing_list[p]}

\* TasksTable.save, in memory: _update_indexes replaces the stored list
Save(existing_list, task_list) == task_list

\* TasksTable._remote_toggle: update_cells, an exception is logged
RemoteToggle(cells, existing_list, task_list, netOk) ==
    IF netOk
    THEN [p \in Positions |->
            IF p \in ChangedCells(existing_list, task_list) THEN task_list[p] ELSE cells[p]]
    ELSE cells

\* _toggle up to its first await
ToggleRead(h, position) ==
    /\ toggles[h].at = "idle"
    /\ toggles' = [toggles EXCEPT ![h] =
                      [at |-> "awaiting", position |-> position,
                       task_list |-> Toggle(taskList, position), sent |-> FALSE]]
    /\ UNCHANGED <<taskList, taskCells, nominateVars, usersVars, overlapVars,
                   ladderVars, visitVars, remoteLog, storeVars>>

\* _toggle after the awaits: self.tasks.save(task_list)
ToggleSave(h, netOk) ==
    /\ toggles[h].at = "awaiting"
    /\ taskList' = Save(taskList, toggles[h].task_list)
    /\ taskCells' = RemoteToggle(taskCells, taskList, toggles[h].task_list, netOk)
    /\ toggles' = [toggles EXCEPT ![h].at = "saved", ![h].sent = netOk]
    /\ UNCHANGED <<nominateVars, usersVars, overlapVars, ladderVars, visitVars, remoteLog, storeVars>>

InitTasks ==
    /\ ModulesIdle
    /\ LadderIdle
    /\ VisitsIdle
    /\ IndexIdle
    /\ LockIdle
    /\ RefreshIdle
    /\ remoteLog = <<>>

NextTasks ==
    \/ \E h \in Handlers, position \in Positions : ToggleRead(h, position)
    \/ \E h \in Handlers, netOk \in BOOLEAN : ToggleSave(h, netOk)

SpecTasks == InitTasks /\ [][NextTasks]_vars

\* ------------------------------------------------------------------------
\* Claims about task lists
\* ------------------------------------------------------------------------
BothSaved ==
    /\ \A h \in Handlers : toggles[h].at = "saved" /\ toggles[h].sent
    /\ toggles["h1"].position # toggles["h2"].position

\* C39: two task toggles of different positions in the same task list,
\* handled as concurrent tasks (each reads the list, toggles one task, awaits
\* the message edit, then saves), both take effect: after both saves the
\* stored list and the remote cells show both tasks toggled.
C39_BothTogglesTakeEffect ==
    BothSaved =>
        \A h \in Handlers :
            /\ taskList[toggles[h].position]
            /\ taskCells[toggles[h].position]

\* One after the other the toggles both take effect: a handler that read the
\* list after the other had saved leaves both tasks done
InTurnBothTakeEffect ==
    (BothSaved /\ \E h \in Handlers : \A g \in Handlers : toggles[h].task_list[toggles[g].position]) =>
        \A h \in Handlers :
            /\ taskList[toggles[h].position]
            /\ taskCells[toggles[h].position]

\* ------------------------------------------------------------------------
\* The users table (integrations/google/sheets/tables/users.py): an
\* UpdatableTable with several unique indexes, of which the one of the full
\* name is the key index. A user is kept as a model of the index part; its
\* field keys holds what the key predicate of the index at hand returns.
\* ------------------------------------------------------------------------
UserIds == {"u1", "u2"}

\* telegram_username is '' for a user without one, and '' is not None
TelegramNames == {"", "x"}

UserModels ==
    {[id |-> i, ver |-> n, keys |-> <<i>>, telegram_username |-> t] :
        i \in UserIds, n \in Vers, t \in TelegramNames}

UserBatches == Batches(UserModels)

\* The indexes in the order of _get_indexes
UserIndexes == <<"by_full_name", "by_telegram_name">>

\* The user as the key predicate of an index sees it
Keyed(name, user) ==
    IF name = "by_full_name" THEN [user EXCEPT !.keys = <<user.id>>]
    ELSE [user EXCEPT !.keys = <<user.telegram_username>>]

KeyedAll(name, models) == [i \in DOMAIN models |-> Keyed(name, models[i])]

KeyedChanges(name, changes) ==
    [i \in DOMAIN changes |-> <<Keyed(name, changes[i][1]), Keyed(name, changes[i][2])>>]

\* UpdatableTable._update_indexes: an exception of one index ends the loop
RECURSIVE UpdateIndexes(_, _, _)
UpdateIndexes(tbl, changes, i) ==
    IF i > Len(UserIndexes) THEN [table |-> tbl, raised |-> FALSE]
    ELSE LET name == UserIndexes[i]
             st == IndexUpdateAll("unique", tbl[name], KeyedChanges(name, changes))
         IN  IF st.raised THEN [table |-> [tbl EXCEPT ![name] = st], raised |-> TRUE]
             ELSE UpdateIndexes([tbl EXCEPT ![name] = st], changes, i + 1)

\* The (existing, model) pairs of update_all: the models that the key index
\* holds with other data
UserChanges(tbl, models) ==
    LET existing(m) == IndexGetInner("unique", tbl.by_full_name, m.id)
        changed == SelectSeq(models, LAMBDA m : existing(m).found /\ existing(m).value # Keyed("by_full_name", m))
    IN  [i \in DOMAIN changed |-> <<existing(changed[i]).value, changed[i]>>]

\* UpdatableTable.update_all of the users table; rows are the keys handed to
\* _update_rows
UsersUpdateAll(models) ==
    /\ LET changes == UserChanges(usersTable, models)
           out == IF changes = <<>> THEN [table |-> usersTable, raised |-> FALSE]
                  ELSE UpdateIndexes(usersTable, changes, 1)
       IN  /\ usersTable' = out.table
           /\ userOp' = [name |-> "update_all", raised |-> out.raised,
                         rows |-> IF out.raised THEN {}
                                  ELSE {changes[i][2].id : i \in DOMAIN changes}]
    /\ UNCHANGED <<nominateVars, taskVars, overlapVars, ladderVars, visitVars, remoteLog, storeVars>>

\* ReadableTable._reset_indexes with the users of a refresh
UsersReset(models) ==
    /\ usersTable' = [name \in DOMAIN usersTable |->
                         IndexReset("unique", usersTable[name], KeyedAll(name, models))]
    /\ userOp' = [name |-> "reset", raised |-> FALSE, rows |-> {}]
    /\ UNCHANGED <<nominateVars, taskVars, overlapVars, ladderVars, visitVars, remoteLog, storeVars>>

InitUsers ==
    /\ ModulesIdle
    /\ LadderIdle
    /\ VisitsIdle
    /\ IndexIdle
    /\ LockIdle
    /\ RefreshIdle
    /\ remoteLog = <<>>

NextUsers ==
    \/ \E models \in UserBatches : UsersReset(models)
    \/ \E models \in UserBatches : UsersUpdateAll(models)

SpecUsers == InitUsers /\ [][NextUsers]_vars

\* ------------------------------------------------------------------------
\* Claims about the users table
\* ------------------------------------------------------------------------
\* The user without the field of the index part
Plain(m) == [id |-> m.id, ver |-> m.ver, telegram_username |-> m.telegram_username]

EntriesOf(st) == {st.data[k] : k \in DOMAIN st.data}

\* No two indexes hold different versions of a user
SameVersions(tbl) ==
    \A m \in EntriesOf(tbl.by_full_name), n \in EntriesOf(tbl.by_telegram_name) :
        m.id = n.id => Plain(m) = Plain(n)

\* The entries that resolve to users outside the batch, under keys that no
\* model of the batch takes, stay
KeepsOthers(models) ==
    \A name \in DOMAIN usersTable :
        \A k \in DOMAIN usersTable[name].data :
            LET B == usersTable[name].data[k]
            IN  ( /\ \A i \in DOMAIN models : models[i].id # B.id
                  /\ \A i \in DOMAIN models : k \notin Range(Keyed(name, models[i]).keys) )
                    => /\ k \in DOMAIN usersTable'[name].data
                       /\ usersTable'[name].data[k] = B

UpdateIsClean ==
    \A models \in UserBatches :
        UsersUpdateAll(models) =>
            /\ KeepsOthers(models)
            /\ SameVersions(usersTable) => SameVersions(usersTable')

\* C38: in a Table with several Unique indexes (UsersTable), updating or
\* deleting record A never removes the index entry that currently resolves
\* to a different record B, and an update_all batch never fails part-way:
\* after update_all returns or raises, all indexes of the Table hold the same
\* version of every record.
C38_UpdateIsClean == [][UpdateIsClean]_vars

\* Each half of it on its own
UpdateKeepsOthers ==
    [][\A models \in UserBatches : UsersUpdateAll(models) => KeepsOthers(models)]_vars

UpdateKeepsVersions ==
    [][\A models \in UserBatches :
          (UsersUpdateAll(models) /\ SameVersions(usersTable)) => SameVersions(usersTable')]_vars

UpdateNeverRaises == ~userOp.raised

\* With users that all have telegram names of their own the update is clean
OwnNames(tbl, models) ==
    \A m, n \in EntriesOf(tbl.by_full_name) \cup EntriesOf(tbl.by_telegram_name)
                  \cup {Keyed("by_full_name", models[i]) : i \in DOMAIN models} :
        m.id # n.id => m.telegram_username # n.telegram_username

\* Every user of the key index is found under its telegram name
FullyIndexed(tbl) ==
    \A m \in EntriesOf(tbl.by_full_name) :
        /\ m.telegram_username \in DOMAIN tbl.by_telegram_name.data
        /\ Plain(tbl.by_telegram_name.data[m.telegram_username]) = Plain(m)

CleanWithOwnNames ==
    [][\A models \in UserBatches :
          (UsersUpdateAll(models) /\ OwnNames(usersTable, models) /\ FullyIndexed(usersTable)) =>
              /\ KeepsOthers(models)
              /\ SameVersions(usersTable')
              /\ FullyIndexed(usersTable')
              /\ ~userOp'.raised]_vars

\* such an update changes a user that another user stands next to
CleanWithOwnNamesHappens ==
    /\ userOp.name = "update_all"
    /\ userOp.rows # {}
    /\ FullyIndexed(usersTable)
    /\ Cardinality(EntriesOf(usersTable.by_telegram_name)) = 2

\* ------------------------------------------------------------------------
\* game_over beside a refresh of the standings or beside another game_over
\* (helpers/business_logic/ping_pong_calculator.py, tables/
\* ping_pong_standings.py). The table lock is taken by get_all, by update_all
\* and by insert_all, each for itself; a call is split where it is free.
\* ------------------------------------------------------------------------
\* The calls that have read the standings and not yet saved
InProgress(c) == overlap[c].at \in {"computed", "checked", "updated"}

\* A write of the standings by c happens beside every other call in progress
Crossing(c) ==
    [d \in Callers |->
        IF d # c /\ InProgress(d) THEN [overlap[d] EXCEPT !.crossed = TRUE] ELSE overlap[d]]

\* game_over up to the call of save_all; the second call is one that starts
\* while the first is under way
ReadStandings(c, winner, loser) ==
    /\ overlap[c].at = "idle"
    /\ c = "g2" => InProgress("g1")
    /\ winner # loser
    /\ LET old_winner_standing == GetStanding(standings, winner)
           old_loser_standing  == GetStanding(standings, loser)
           new_ratings == EloGameOver(old_winner_standing.rating, old_loser_standing.rating)
           partial_winner_standing ==
               [old_winner_standing EXCEPT !.rating = new_ratings[1], !.wins = @ + 1]
           partial_loser_standing ==
               [old_loser_standing EXCEPT !.rating = new_ratings[2], !.losses = @ + 1]
           standing_updates ==
               CalculateRankChanges(standings, partial_winner_standing, partial_loser_standing)
       IN  overlap' = [overlap EXCEPT ![c] =
                          [NotCalled EXCEPT !.at = "computed", !.winner = winner,
                                            !.loser = loser, !.updates = standing_updates]]
    /\ UNCHANGED <<reloaded, nominateVars, taskVars, usersVars, ladderVars, visitVars,
                   remoteLog, storeVars>>

\* save_all: get_all of the names and the split into to_update and to_insert
CheckExisting(c) ==
    /\ overlap[c].at = "computed"
    /\ LET models == overlap[c].updates
       IN  overlap' = [overlap EXCEPT
               ![c].at = "checked",
               ![c].to_update = SelectSeq(models, LAMBDA m : m.player_name \in Names(standings)),
               ![c].to_insert = SelectSeq(models, LAMBDA m : m.player_name \notin Names(standings))]
    /\ UNCHANGED <<reloaded, nominateVars, taskVars, usersVars, ladderVars, visitVars,
                   remoteLog, storeVars>>

\* save_all: self.update_all(to_update)
UpdatePart(c) ==
    /\ overlap[c].at = "checked"
    /\ standings' = UpdateAll(standings, overlap[c].to_update)
    /\ overlap' = [Crossing(c) EXCEPT ![c].at = "updated"]
    /\ UNCHANGED <<reloaded, matches, clock, call, batch, result, games, nominateVars,
                   taskVars, usersVars, visitVars, remoteLog, storeVars>>

\* save_all: self.insert_all(to_insert), and the insert of the match
InsertPart(c) ==
    /\ overlap[c].at = "updated"
    /\ standings' = InsertAll(standings, overlap[c].to_insert)
    /\ matches' = SortedBucketInsert(matches, [date |-> clock, winner |-> overlap[c].winner,
                                               loser |-> overlap[c].loser])
    /\ clock' = clock + 1
    /\ overlap' = [Crossing(c) EXCEPT ![c].at = "saved"]
    /\ UNCHANGED <<reloaded, call, batch, result, games, nominateVars,
                   taskVars, usersVars, visitVars, remoteLog, storeVars>>

\* The standings a refresh can load: the rows of a worksheet with right ranks
Snapshots ==
    {t \in InitTables(MaxInitPlayers) : RanksDense(t) /\ RanksFollowRating(t)}

\* ReadableTable._reset_indexes of the standings table, once, while a call
\* is under way, with a worksheet that lacks rows of the table (C19: the
\* remote write of an insert can fail and leave memory ahead)
Reload(rows) ==
    /\ ~reloaded
    /\ \E c \in Callers : InProgress(c)
    /\ Names(rows) \subseteq Names(standings)
    /\ Names(rows) # Names(standings)
    /\ standings' = rows
    /\ reloaded' = TRUE
    /\ overlap' = Crossing("refresh")
    /\ UNCHANGED <<matches, clock, call, batch, result, games, nominateVars,
                   taskVars, usersVars, visitVars, remoteLog, storeVars>>

InitOverlap ==
    /\ standings \in Snapshots
    /\ matches = [p \in Players |-> <<>>]
    /\ clock = 1
    /\ call = [winner |-> "", loser |-> "", sortRaises |-> FALSE]
    /\ batch = <<>>
    /\ result = [status |-> "none"]
    /\ games = 0
    /\ remoteLog = <<>>
    /\ VisitsIdle
    /\ IndexIdle
    /\ LockIdle
    /\ RefreshIdle
    /\ ModulesIdle

NextOverlap ==
    \/ \E c \in Callers, winner, loser \in Players : ReadStandings(c, winner, loser)
    \/ \E c \in Callers : CheckExisting(c)
    \/ \E c \in Callers : UpdatePart(c)
    \/ \E c \in Callers : InsertPart(c)
    \/ \E rows \in Snapshots : Reload(rows)

SpecOverlap == InitOverlap /\ [][NextOverlap]_vars

\* ------------------------------------------------------------------------
\* Claims about game_over beside other writers
\* ------------------------------------------------------------------------
RanksRight(data) ==
    /\ Cardinality(Names(data)) = Len(data)
    /\ RanksDense(data)
    /\ RanksFollowRating(data)

\* Every record that update_all and insert_all are handed is stored
NoneSkipped(c) ==
    /\ UpdatePart(c) => Range(overlap[c].to_update) \subseteq Range(standings')
    /\ InsertPart(c) => Range(overlap[c].to_insert) \subseteq Range(standings')

\* The ranks when save_all of a call that was crossed completes
RanksRightAfter(c, crossed) ==
    (InsertPart(c) /\ overlap[c].crossed = crossed) => RanksRight(standings')

OverlapIsHarmless == \A c \in Callers : NoneSkipped(c) /\ RanksRightAfter(c, TRUE)

\* C34: if a refresh of the standings table (or another game_over)
\* interleaves between game_over's read of the standings and its save_all,
\* then after save_all completes the in-memory ranks are still a
\* duplicate-free permutation of 1..N consistent with descending rating, and
\* every record of the computed batch has been applied (none is silently
\* skipped because its existence changed between the check and the write).
C34_OverlapIsHarmless == [][OverlapIsHarmless]_vars

\* Each half of it on its own
OverlapSkipsNone == [][\A c \in Callers : NoneSkipped(c)]_vars

OverlapKeepsRanks == [][\A c \in Callers : RanksRightAfter(c, TRUE)]_vars

\* A call that nothing crossed leaves the ranks right
AloneKeepsRanks == [][\A c \in Callers : RanksRightAfter(c, FALSE)]_vars

====
